---- MODULE Spec2Model ----
(***************************************************************************)
(* The expression equivalence engine of app/utils/math_engine.py:          *)
(* ExpressionNormalizer.expressions_equivalent ("compare") and             *)
(* ExpressionNormalizer.get_canonical_form ("normalize_for_storage").      *)
(*                                                                         *)
(* Strings are sequences of one-character strings.  The SymPy and          *)
(* latex2sympy2 calls of the engine are modelled on the fragment of        *)
(* rational expressions over the symbols a, b, c, x with integer           *)
(* coefficients: a parsed expression is a quotient of two polynomials,     *)
(* SymPy's arithmetic is polynomial arithmetic, and a library call that    *)
(* raises on an input outside the fragment is the variable fault.          *)
(***************************************************************************)
EXTENDS Integers, Sequences, FiniteSets, TLC

\* ------------------------------------------------------------------------
\* Characters and strings
\* ------------------------------------------------------------------------

BS == "\\"
\* A control byte (0x01), one character of an input string.
CTRL == "<01>"

Digits == {"0", "1", "2", "3", "4", "5", "6", "7", "8", "9"}
LowerLetters ==
    {"a", "b", "c", "d", "e", "f", "g", "h", "i", "j", "k", "l", "m",
     "n", "o", "p", "q", "r", "s", "t", "u", "v", "w", "x", "y", "z"}
UpperSeq ==
    <<"A", "B", "C", "D", "E", "F", "G", "H", "I", "J", "K", "L", "M",
      "N", "O", "P", "Q", "R", "S", "T", "U", "V", "W", "X", "Y", "Z">>
LowerSeq ==
    <<"a", "b", "c", "d", "e", "f", "g", "h", "i", "j", "k", "l", "m",
      "n", "o", "p", "q", "r", "s", "t", "u", "v", "w", "x", "y", "z">>
UpperLetters == {UpperSeq[i] : i \in DOMAIN UpperSeq}
Letters == LowerLetters \cup UpperLetters
Whitespace == {" "}

DigitValue(ch) ==
    CASE ch = "0" -> 0 [] ch = "1" -> 1 [] ch = "2" -> 2 [] ch = "3" -> 3
      [] ch = "4" -> 4 [] ch = "5" -> 5 [] ch = "6" -> 6 [] ch = "7" -> 7
      [] ch = "8" -> 8 [] ch = "9" -> 9

\* str.lower() on one character
LowerChar(ch) ==
    IF ch \in UpperLetters
    THEN LowerSeq[CHOOSE i \in DOMAIN UpperSeq : UpperSeq[i] = ch]
    ELSE ch

Lower(s) == [i \in DOMAIN s |-> LowerChar(s[i])]

\* s[i:] of Python, i counted from 1
Drop(s, i) == SubSeq(s, i, Len(s))

StartsWithAt(s, pat, i) ==
    /\ i + Len(pat) - 1 <= Len(s)
    /\ \A k \in 1..Len(pat) : s[i + k - 1] = pat[k]

\* "pat in s"
Contains(s, pat) == \E i \in 1..(Len(s) + 1) : StartsWithAt(s, pat, i)

RECURSIVE ReplaceFrom(_, _, _, _)
ReplaceFrom(s, pat, rep, i) ==
    IF i > Len(s) THEN <<>>
    ELSE IF Len(pat) > 0 /\ StartsWithAt(s, pat, i)
         THEN rep \o ReplaceFrom(s, pat, rep, i + Len(pat))
         ELSE <<s[i]>> \o ReplaceFrom(s, pat, rep, i + 1)

\* str.replace(pat, rep): every non-overlapping occurrence, left to right
Replace(s, pat, rep) == IF s = <<>> THEN <<>> ELSE ReplaceFrom(s, pat, rep, 1)

RECURSIVE LStrip(_)
LStrip(s) ==
    IF s # <<>> /\ Head(s) \in Whitespace THEN LStrip(Tail(s)) ELSE s

RECURSIVE RStrip(_)
RStrip(s) ==
    IF s # <<>> /\ s[Len(s)] \in Whitespace
    THEN RStrip(SubSeq(s, 1, Len(s) - 1))
    ELSE s

\* str.strip()
Strip(s) == RStrip(LStrip(s))

\* re.sub(r"\s+", "", s)
RemoveWhitespace(s) == SelectSeq(s, LAMBDA ch : ch \notin Whitespace)

\* s.split("=", 1): the position of the first "=", 0 when there is none
RECURSIVE FirstIndexFrom(_, _, _)
FirstIndexFrom(s, ch, i) ==
    IF i > Len(s) THEN 0
    ELSE IF s[i] = ch THEN i ELSE FirstIndexFrom(s, ch, i + 1)

FirstIndex(s, ch) == FirstIndexFrom(s, ch, 1)

\* ------------------------------------------------------------------------
\* Fallback string normalization
\* ------------------------------------------------------------------------

function_names ==
    << <<"l", "o", "g">>, <<"l", "n">>, <<"e", "x", "p">>,
       <<"s", "q", "r", "t">>, <<"s", "i", "n">>, <<"c", "o", "s">>,
       <<"t", "a", "n">>, <<"a", "s", "i", "n">>, <<"a", "c", "o", "s">>,
       <<"a", "t", "a", "n">>, <<"s", "i", "n", "h">>,
       <<"c", "o", "s", "h">>, <<"t", "a", "n", "h">> >>

\* the named functions of self.local_dict
local_dict ==
    { <<"l", "o", "g">>, <<"l", "n">>, <<"e", "x", "p">>,
      <<"s", "q", "r", "t">>, <<"s", "i", "n">>, <<"c", "o", "s">>,
      <<"t", "a", "n">>, <<"a", "s", "i", "n">>, <<"a", "c", "o", "s">>,
      <<"a", "t", "a", "n">>, <<"s", "i", "n", "h">>, <<"c", "o", "s", "h">>,
      <<"t", "a", "n", "h">>, <<"a", "b", "s">>,
      <<"f", "l", "o", "o", "r">>, <<"c", "e", "i", "l", "i", "n", "g">>,
      <<"C", "e", "i", "l", "i", "n", "g">>, <<"M", "a", "x">>, <<"M", "i", "n">> }

FnPrefix == <<"_", "_", "F", "N", "_", "_">>
FnSuffix == <<"_", "_", "(">>

\* whether name ends right before position p of s
EndsBefore(s, name, p) ==
    /\ Len(name) < p
    /\ \A j \in 1..Len(name) : s[p - 1 - Len(name) + j] = name[j]

\* the first name of function_names that ends right before position p of
\* s, as its index; 0 when there is none
FunctionBefore(s, p) ==
    LET ks == {k \in DOMAIN function_names : EndsBefore(s, function_names[k], p)}
    IN  IF ks = {} THEN 0 ELSE CHOOSE k \in ks : \A k2 \in ks : k <= k2

\* whether the name protected at some "(" of s begins at position i
ProtectedNameAt(s, i) ==
    \E p \in (i + 1)..Len(s) :
        /\ s[p] = "("
        /\ FunctionBefore(s, p) # 0
        /\ p - Len(function_names[FunctionBefore(s, p)]) = i

RECURSIVE ProtectFrom(_, _)
ProtectFrom(s, i) ==
    IF i > Len(s) THEN <<>>
    ELSE (IF ProtectedNameAt(s, i) THEN FnPrefix ELSE <<>>)
         \o (IF s[i] = "(" /\ FunctionBefore(s, i) # 0 THEN <<"_", "_">> ELSE <<>>)
         \o <<s[i]>>
         \o ProtectFrom(s, i + 1)

\* for fn in function_names: s = s.replace(f"{fn}(", f"__FN__{fn}__(")
\* Every pattern ends with its only "(", so each replacement acts at one
\* "(" of s and leaves the text before every other "(" as it was; at one
\* "(" the first name of function_names that ends there is wrapped, and
\* after that the "(" follows "_", where no name ends. The loop is
\* therefore one pass over s that wraps, at each "(", the first name of
\* function_names ending there ("asin(" becomes "a__FN__sin__(").
ProtectFunctions(s) == ProtectFrom(s, 1)

\* the first name fn of function_names with "__FN__fn__(" at position i of
\* s, as its index; 0 when there is none
WrappedAt(s, i) ==
    LET ks == {k \in DOMAIN function_names :
                  StartsWithAt(s, FnPrefix \o function_names[k] \o FnSuffix, i)}
    IN  IF ks = {} THEN 0 ELSE CHOOSE k \in ks : \A k2 \in ks : k <= k2

RECURSIVE RestoreFrom(_, _)
RestoreFrom(s, i) ==
    IF i > Len(s) THEN <<>>
    ELSE IF WrappedAt(s, i) # 0
    THEN function_names[WrappedAt(s, i)] \o <<"(">>
         \o RestoreFrom(s, i + Len(FnPrefix) + Len(function_names[WrappedAt(s, i)])
                               + Len(FnSuffix))
    ELSE <<s[i]>> \o RestoreFrom(s, i + 1)

\* for fn in function_names: s = s.replace(f"__FN__{fn}__(", f"{fn}(")
\* Two wrapped names never overlap and unwrapping one makes no other, so
\* the loop is one pass over s that unwraps every wrapped name.
RestoreFunctions(s) == RestoreFrom(s, 1)

\* re.sub(r"(\d)([a-zA-Z])", r"\1*\2", s)
RECURSIVE DigitLetterTimes(_, _)
DigitLetterTimes(s, i) ==
    IF i > Len(s) THEN <<>>
    ELSE IF i < Len(s) /\ s[i] \in Digits /\ s[i + 1] \in Letters
         THEN <<s[i], "*", s[i + 1]>> \o DigitLetterTimes(s, i + 2)
         ELSE <<s[i]>> \o DigitLetterTimes(s, i + 1)

\* re.sub(r"([a-zA-Z])\(", r"\1*(", s)
RECURSIVE LetterParenTimes(_, _)
LetterParenTimes(s, i) ==
    IF i > Len(s) THEN <<>>
    ELSE IF i < Len(s) /\ s[i] \in Letters /\ s[i + 1] = "("
         THEN <<s[i], "*", "(">> \o LetterParenTimes(s, i + 2)
         ELSE <<s[i]>> \o LetterParenTimes(s, i + 1)

\* remove math mode markers: \( \) \[ \] $$ $
StripMathMode(s) ==
    LET s1 == Replace(s, <<BS, "(">>, <<>>)
        s2 == Replace(s1, <<BS, ")">>, <<>>)
        s3 == Replace(s2, <<BS, "[">>, <<>>)
        s4 == Replace(s3, <<BS, "]">>, <<>>)
        s5 == Replace(s4, <<"$", "$">>, <<>>)
    IN  Replace(s5, <<"$">>, <<>>)

BasicStringNormalization(expr_str) ==
    LET s1 == StripMathMode(Strip(expr_str))
        s2 == Lower(RemoveWhitespace(s1))
        s3 == Replace(s2, <<"^">>, <<"*", "*">>)
        s4 == ProtectFunctions(s3)
        s5 == DigitLetterTimes(s4, 1)
        s6 == LetterParenTimes(s5, 1)
    IN  RestoreFunctions(s6)

\* ------------------------------------------------------------------------
\* SymPy expressions of the fragment: quotients of integer polynomials
\* ------------------------------------------------------------------------

\* The symbols of the fragment; a monomial is its tuple of exponents.
Syms == <<"a", "b", "c", "x">>
SymIdx == DOMAIN Syms
SymLetters == {Syms[k] : k \in SymIdx}
SymIndexOf(ch) == CHOOSE k \in SymIdx : Syms[k] = ch

MOne == [k \in SymIdx |-> 0]
MVar(v) == [k \in SymIdx |-> IF k = v THEN 1 ELSE 0]
MMul(m1, m2) == [k \in SymIdx |-> m1[k] + m2[k]]
MDivides(m1, m2) == \A k \in SymIdx : m1[k] <= m2[k]
MQuot(m2, m1) == [k \in SymIdx |-> m2[k] - m1[k]]

\* A polynomial: a function from its monomials to their non-zero
\* coefficients.
PZero == [m \in {} |-> 0]
PConst(k) == IF k = 0 THEN PZero ELSE [m \in {MOne} |-> k]
PVar(v) == [m \in {MVar(v)} |-> 1]
Coef(p, m) == IF m \in DOMAIN p THEN p[m] ELSE 0

PAdd(p, q) ==
    LET S == {m \in DOMAIN p \cup DOMAIN q : Coef(p, m) + Coef(q, m) # 0}
    IN  [m \in S |-> Coef(p, m) + Coef(q, m)]

PNeg(p) == [m \in DOMAIN p |-> 0 - p[m]]

PSub(p, q) == PAdd(p, PNeg(q))

RECURSIVE ConvSum(_, _, _, _)
ConvSum(S, p, q, m) ==
    IF S = {} THEN 0
    ELSE LET m1 == CHOOSE z \in S : TRUE
         IN  (IF MDivides(m1, m) THEN p[m1] * Coef(q, MQuot(m, m1)) ELSE 0)
             + ConvSum(S \ {m1}, p, q, m)

PMul(p, q) ==
    LET M == {MMul(m1, m2) : m1 \in DOMAIN p, m2 \in DOMAIN q}
        S == {m \in M : ConvSum(DOMAIN p, p, q, m) # 0}
    IN  [m \in S |-> ConvSum(DOMAIN p, p, q, m)]

RECURSIVE IPow(_, _)
IPow(b, k) == IF k = 0 THEN 1 ELSE b * IPow(b, k - 1)

MEval(m, pt) ==
    LET F[k \in 0..Len(Syms)] ==
            IF k = 0 THEN 1 ELSE F[k - 1] * IPow(pt[k], m[k])
    IN  F[Len(Syms)]

RECURSIVE PEvalSet(_, _, _)
PEvalSet(S, p, pt) ==
    IF S = {} THEN 0
    ELSE LET m == CHOOSE z \in S : TRUE
         IN  p[m] * MEval(m, pt) + PEvalSet(S \ {m}, p, pt)

\* the value of polynomial p at the point pt (one integer per symbol)
PEval(p, pt) == PEvalSet(DOMAIN p, p, pt)

Abs(k) == IF k < 0 THEN 0 - k ELSE k

RECURSIVE Gcd(_, _)
Gcd(u, v) == IF v = 0 THEN Abs(u) ELSE Gcd(v, u % Abs(v))

RECURSIVE GcdSet(_, _, _)
GcdSet(S, p, g) ==
    IF S = {} THEN g
    ELSE LET m == CHOOSE z \in S : TRUE
         IN  GcdSet(S \ {m}, p, Gcd(g, p[m]))

\* the integer content of p (0 for the zero polynomial)
PContent(p) == GcdSet(DOMAIN p, p, 0)

Min(S) == CHOOSE u \in S : \A v \in S : u <= v

\* An expression: numerator n over denominator d.  d = PZero is SymPy's
\* zoo / nan: the expression is undefined.
RF(n, d) == [n |-> n, d |-> d]
RConst(k) == RF(PConst(k), PConst(1))
RVar(v) == RF(PVar(v), PConst(1))
RZero == RConst(0)
RAdd(u, v) == RF(PAdd(PMul(u.n, v.d), PMul(v.n, u.d)), PMul(u.d, v.d))

\* the difference taken as a sum
RSubAsSum(u, w) == RAdd(u, w)

RSub(u, v) == RF(PSub(PMul(u.n, v.d), PMul(v.n, u.d)), PMul(u.d, v.d))
RMul(u, v) == RF(PMul(u.n, v.n), PMul(u.d, v.d))
RDiv(u, v) == RF(PMul(u.n, v.d), PMul(u.d, v.n))
RNeg(u) == RF(PNeg(u.n), u.d)

RECURSIVE RPow(_, _)
\* the power taken as a product with the exponent
RPowAsProduct(u, k) == RMul(u, RConst(k))

RPow(u, k) == IF k = 0 THEN RConst(1) ELSE RMul(u, RPow(u, k - 1))

IsUndefined(u) == u.d = PZero
\* e == 0 of SymPy
IsZeroExpr(u) == u.n = PZero /\ u.d # PZero
\* an integer constant k >= 0: the exponents the fragment admits
IsNatConst(u) ==
    /\ u.d = PConst(1)
    /\ DOMAIN u.n \subseteq {MOne}
    /\ Coef(u.n, MOne) >= 0
NatValue(u) == Coef(u.n, MOne)

\* diff.free_symbols, as indices of Syms
FreeSymbols(u) ==
    {k \in SymIdx : \E m \in DOMAIN u.n \cup DOMAIN u.d : m[k] > 0}

\* ------------------------------------------------------------------------
\* Canonicalization
\* ------------------------------------------------------------------------

LexLess(m1, m2) ==
    \E k \in SymIdx :
        /\ m1[k] < m2[k]
        /\ \A j \in 1..(k - 1) : m1[j] = m2[j]

\* the coefficient of the lexicographically greatest monomial of p # 0
LeadCoef(p) ==
    p[CHOOSE m \in DOMAIN p : \A m2 \in DOMAIN p : m2 = m \/ LexLess(m2, m)]

PScaleDiv(p, g, mg) ==
    LET S == {MQuot(m, mg) : m \in DOMAIN p}
    IN  [m \in S |-> p[MMul(m, mg)] \div g]

\* sp.simplify on a quotient: the common integer content of numerator and
\* denominator is divided out and the denominator made positive
SimplifyPass(u) ==
    IF u.d = PZero THEN u
    ELSE IF u.n = PZero THEN RZero
    ELSE LET g == Gcd(PContent(u.n), PContent(u.d))
             sg == IF LeadCoef(u.d) < 0 THEN 0 - g ELSE g
         IN  RF(PScaleDiv(u.n, sg, MOne), PScaleDiv(u.d, sg, MOne))

\* sp.together, sp.cancel: the common monomial factor of numerator and
\* denominator is cancelled
CancelPass(u) ==
    IF u.d = PZero \/ u.n = PZero THEN u
    ELSE LET D == DOMAIN u.n \cup DOMAIN u.d
             mg == [k \in SymIdx |-> Min({m[k] : m \in D})]
         IN  RF(PScaleDiv(u.n, 1, mg), PScaleDiv(u.d, 1, mg))

\* the faults that make a pass of _canonicalize_expr raise: the first
\* sp.simplify (line 305), or sp.cancel (line 309) after sp.simplify
\* succeeded
PassFaults == {"simplify", "cancel"}

\* the canonicalizer handing back the result of the passes that succeeded
CanonicalizeKeepsProgress(expr, f) ==
    IF f = "simplify" THEN expr
    ELSE IF f = "cancel" THEN SimplifyPass(expr)
    ELSE SimplifyPass(CancelPass(SimplifyPass(expr)))

\* the canonicalizer whose logarithm passes are not guarded
CanonicalizeLogUnguarded(expr, f) ==
    IF f \in PassFaults \cup {"log"} THEN expr
    ELSE SimplifyPass(CancelPass(SimplifyPass(expr)))

\* _canonicalize_expr: the pipeline of passes; when a pass raises, the
\* except clause returns the argument expr (line 335); an exception of
\* the logarithm passes (f = "log") is passed over (lines 312-316), and
\* these passes leave a quotient of polynomials as it is
CanonicalizeExpr(expr, f) ==
    IF f \in PassFaults THEN expr
    ELSE SimplifyPass(CancelPass(SimplifyPass(expr)))

\* ------------------------------------------------------------------------
\* The library parsers: latex2sympy, parse_expr, sympify
\* ------------------------------------------------------------------------

\* The greatest exponent of the fragment.
MaxExp == 8

\* What a library parser accepts.  "latex": latex2sympy (LaTeX braces,
\* \frac, \left( \right), implicit multiplication).  "ascii": parse_expr
\* with standard_transformations, implicit_multiplication_application and
\* convert_xor.  "sympify": sp.sympify (no implicit multiplication).
ImplicitMul(dia) == dia \in {"latex", "ascii"}
StarStar(dia) == dia \in {"ascii", "sympify"}

PRes(v, i) == [ok |-> TRUE, v |-> v, i |-> i]
PFail == [ok |-> FALSE, v |-> RZero, i |-> 0]

RECURSIVE SkipWs(_, _)
SkipWs(s, i) ==
    IF i <= Len(s) /\ s[i] \in Whitespace THEN SkipWs(s, i + 1) ELSE i

CharAt(s, i) == IF i \in DOMAIN s THEN s[i] ELSE "<eof>"

LeftParen == <<BS, "l", "e", "f", "t", "(">>
RightParen == <<BS, "r", "i", "g", "h", "t", ")">>
FracOpen == <<BS, "f", "r", "a", "c", "{">>

AtomStart(dia, s, j) ==
    \/ CharAt(s, j) \in Digits \cup SymLetters \cup {"("}
    \/ dia = "latex" /\ (StartsWithAt(s, LeftParen, j) \/ StartsWithAt(s, FracOpen, j))

RECURSIVE NumTail(_, _, _)
NumTail(s, i, acc) ==
    IF CharAt(s, i) \in Digits
    THEN NumTail(s, i + 1, 10 * acc + DigitValue(s[i]))
    ELSE PRes(RConst(acc), i)

RECURSIVE ParseSum(_, _, _)
RECURSIVE SumTail(_, _, _, _)
RECURSIVE ParseProduct(_, _, _)
RECURSIVE ProductTail(_, _, _, _)
RECURSIVE ParseUnary(_, _, _)
RECURSIVE ParsePower(_, _, _)
RECURSIVE ParseAtom(_, _, _)

\* the group r is closed by the string close
CloseGroup(s, r, close) ==
    IF r.ok /\ StartsWithAt(s, close, SkipWs(s, r.i))
    THEN PRes(r.v, SkipWs(s, r.i) + Len(close))
    ELSE PFail

\* the group opened before position i and closed by the string close
ParseGroup(dia, s, i, close) == CloseGroup(s, ParseSum(dia, s, i), close)

FracOf(num, den) ==
    IF den.ok THEN PRes(RDiv(num.v, den.v), den.i) ELSE PFail

\* \frac{num}{den}, num parsed up to "}{"
ParseFrac(dia, s, num) ==
    IF num.ok THEN FracOf(num, ParseGroup(dia, s, num.i, <<"}">>)) ELSE PFail

\* the parenthesis opening at i: <<opening, closing>>
ParenAt(dia, s, i) ==
    IF CharAt(s, i) = "(" THEN <<1, <<")">> >>
    ELSE IF dia = "latex" /\ StartsWithAt(s, LeftParen, i)
    THEN <<Len(LeftParen), RightParen>>
    ELSE <<0, <<>> >>

AtomAt(dia, s, i) ==
    IF CharAt(s, i) \in Digits THEN NumTail(s, i, 0)
    ELSE IF CharAt(s, i) \in SymLetters
    THEN PRes(RVar(SymIndexOf(s[i])), i + 1)
    ELSE IF ParenAt(dia, s, i)[1] > 0
    THEN ParseGroup(dia, s, i + ParenAt(dia, s, i)[1], ParenAt(dia, s, i)[2])
    ELSE IF dia = "latex" /\ StartsWithAt(s, FracOpen, i)
    THEN ParseFrac(dia, s, ParseGroup(dia, s, i + Len(FracOpen), <<"}", "{">>))
    ELSE PFail

ParseAtom(dia, s, i) == AtomAt(dia, s, SkipWs(s, i))

\* the position after the power operator at j, 0 when there is none
AfterPowerOp(dia, s, j) ==
    IF CharAt(s, j) = "^" THEN j + 1
    ELSE IF StarStar(dia) /\ StartsWithAt(s, <<"*", "*">>, j) THEN j + 2
    ELSE 0

\* the exponent at k: a LaTeX group or atom, a Python unary expression
ExponentAt(dia, s, k) ==
    IF dia = "latex"
    THEN IF CharAt(s, k) = "{"
         THEN ParseGroup(dia, s, k + 1, <<"}">>)
         ELSE ParseAtom(dia, s, k)
    ELSE ParseUnary(dia, s, k)

PowerOf(s, b, ex) ==
    IF ex.ok /\ IsNatConst(ex.v) /\ NatValue(ex.v) <= MaxExp
    THEN PRes(RPow(b.v, NatValue(ex.v)), SkipWs(s, ex.i))
    ELSE PFail

PowerAfter(dia, s, b) ==
    IF ~b.ok THEN PFail
    ELSE IF AfterPowerOp(dia, s, SkipWs(s, b.i)) = 0
    THEN PRes(b.v, SkipWs(s, b.i))
    ELSE PowerOf(s, b, ExponentAt(dia, s,
                          SkipWs(s, AfterPowerOp(dia, s, SkipWs(s, b.i)))))

ParsePower(dia, s, i) == PowerAfter(dia, s, ParseAtom(dia, s, i))

Negated(r) == IF r.ok THEN PRes(RNeg(r.v), r.i) ELSE PFail

UnaryAt(dia, s, i) ==
    IF CharAt(s, i) = "-"
    THEN Negated(ParseUnary(dia, s, i + 1))
    ELSE ParsePower(dia, s, i)

ParseUnary(dia, s, i) == UnaryAt(dia, s, SkipWs(s, i))

\* the multiplicative operator at j: "*", "/", "implicit" or "none"
ProductOpAt(dia, s, j) ==
    IF CharAt(s, j) = "*" /\ CharAt(s, j + 1) # "*" THEN "*"
    ELSE IF CharAt(s, j) = "/" THEN "/"
    ELSE IF ImplicitMul(dia) /\ AtomStart(dia, s, j) THEN "implicit"
    ELSE "none"

ProductStep(dia, s, acc, opk, r) ==
    IF r.ok
    THEN ProductTail(dia, s,
                     IF opk = "/" THEN RDiv(acc, r.v) ELSE RMul(acc, r.v), r.i)
    ELSE PFail

ProductAt(dia, s, acc, j) ==
    IF ProductOpAt(dia, s, j) = "none" THEN PRes(acc, j)
    ELSE ProductStep(dia, s, acc, ProductOpAt(dia, s, j),
                     IF ProductOpAt(dia, s, j) = "implicit"
                     THEN ParsePower(dia, s, j)
                     ELSE ParseUnary(dia, s, j + 1))

ProductTail(dia, s, acc, i) == ProductAt(dia, s, acc, SkipWs(s, i))

ProductFrom(dia, s, r) ==
    IF r.ok THEN ProductTail(dia, s, r.v, r.i) ELSE PFail

ParseProduct(dia, s, i) == ProductFrom(dia, s, ParseUnary(dia, s, i))

SumStep(dia, s, acc, opk, r) ==
    IF r.ok
    THEN SumTail(dia, s,
                 IF opk = "-" THEN RSub(acc, r.v) ELSE RAdd(acc, r.v), r.i)
    ELSE PFail

SumAt(dia, s, acc, j) ==
    IF CharAt(s, j) \in {"+", "-"}
    THEN SumStep(dia, s, acc, CharAt(s, j), ParseProduct(dia, s, j + 1))
    ELSE PRes(acc, j)

SumTail(dia, s, acc, i) == SumAt(dia, s, acc, SkipWs(s, i))

SumFrom(dia, s, r) == IF r.ok THEN SumTail(dia, s, r.v, r.i) ELSE PFail

ParseSum(dia, s, i) == SumFrom(dia, s, ParseProduct(dia, s, i))

\* A parsed input: a plain expression (kind "Expr", lhs), a relation
\* (kind Eq, Lt, Gt, Le, Ge) of lhs and rhs, a Boolean (kind "True",
\* "False"), or no parse (kind "Raise").
Parsed(kind, lhs, rhs) == [kind |-> kind, lhs |-> lhs, rhs |-> rhs]
Raise == Parsed("Raise", RZero, RZero)
RelKinds == {"Eq", "Lt", "Gt", "Le", "Ge"}

\* the relation operator at position j: <<kind, length>>
RelOpAt(dia, s, j) ==
    IF dia = "latex" /\ CharAt(s, j) = "=" THEN <<"Eq", 1>>
    ELSE IF dia # "latex" /\ StartsWithAt(s, <<"=", "=">>, j) THEN <<"EqEq", 2>>
    ELSE IF dia # "latex" /\ StartsWithAt(s, <<"<", "=">>, j) THEN <<"Le", 2>>
    ELSE IF dia # "latex" /\ StartsWithAt(s, <<">", "=">>, j) THEN <<"Ge", 2>>
    ELSE IF CharAt(s, j) = "<" THEN <<"Lt", 1>>
    ELSE IF CharAt(s, j) = ">" THEN <<"Gt", 1>>
    ELSE <<"None", 0>>

\* l == r of Python on two SymPy expressions: whether they are the same
\* expression, a bool
SamePythonValue(l, r) ==
    IF l = r THEN Parsed("True", l, r) ELSE Parsed("False", l, r)

RelationOf(s, l, kind, r) ==
    IF r.ok /\ SkipWs(s, r.i) > Len(s)
    THEN IF kind = "EqEq" THEN SamePythonValue(l.v, r.v) ELSE Parsed(kind, l.v, r.v)
    ELSE Raise

AfterLhs(dia, s, l, j) ==
    IF j > Len(s) THEN Parsed("Expr", l.v, RZero)
    ELSE IF RelOpAt(dia, s, j)[1] = "None" THEN Raise
    ELSE RelationOf(s, l, RelOpAt(dia, s, j)[1],
                    ParseSum(dia, s, j + RelOpAt(dia, s, j)[2]))

WholeInput(dia, s, l) ==
    IF l.ok THEN AfterLhs(dia, s, l, SkipWs(s, l.i)) ELSE Raise

\* One library parser on the whole string s; parse_expr and sympify read
\* the names True and False of Python.
LibParse(dia, s) ==
    IF dia # "latex" /\ s = <<"T", "r", "u", "e">>
    THEN Parsed("True", RZero, RZero)
    ELSE IF dia # "latex" /\ s = <<"F", "a", "l", "s", "e">>
    THEN Parsed("False", RZero, RZero)
    ELSE WholeInput(dia, s, ParseSum(dia, s, 1))

\* ------------------------------------------------------------------------
\* LaTeX detection and cleanup
\* ------------------------------------------------------------------------

\* _is_latex_expression: "$", "\(", "\[", a backslash command (which
\* covers \frac{, \sqrt{, \left( and \right)), "^{" or "_{"
IsLatexExpression(s) ==
    \/ Contains(s, <<"$">>)
    \/ Contains(s, <<BS, "(">>)
    \/ Contains(s, <<BS, "[">>)
    \/ \E i \in DOMAIN s : s[i] = BS /\ CharAt(s, i + 1) \in Letters
    \/ Contains(s, <<"^", "{">>)
    \/ Contains(s, <<"_", "{">>)

\* the end of the first "}" at or after i that closes a non-empty group
\* ([^}]+ then "}"), 0 when there is none
RECURSIVE GroupEnd(_, _, _)
GroupEnd(s, i, start) ==
    IF i > Len(s) THEN 0
    ELSE IF s[i] = "}" THEN (IF i > start THEN i ELSE 0)
    ELSE GroupEnd(s, i + 1, start)

\* re.sub(cmd + r"\{([^}]+)\}", r"\1", s)
RECURSIVE Unwrap(_, _, _)
Unwrap(s, cmd, i) ==
    IF i > Len(s) THEN <<>>
    ELSE LET open == cmd \o <<"{">>
             close == IF StartsWithAt(s, open, i)
                      THEN GroupEnd(s, i + Len(open), i + Len(open))
                      ELSE 0
         IN  IF close > 0
             THEN SubSeq(s, i + Len(open), close - 1) \o Unwrap(s, cmd, close + 1)
             ELSE <<s[i]>> \o Unwrap(s, cmd, i + 1)

\* _minimal_latex_cleanup
MinimalLatexCleanup(s) ==
    LET s1 == StripMathMode(s)
        s2 == Replace(s1, <<BS, "l", "e", "f", "t">>, <<>>)
        s3 == Replace(s2, <<BS, "r", "i", "g", "h", "t">>, <<>>)
        s4 == Replace(s3, <<BS, "l", "n">>, <<BS, "l", "o", "g">>)
        s5 == Replace(s4, <<BS, "c", "d", "o", "t">>, <<"*">>)
        s6 == Replace(s5, <<BS, "t", "i", "m", "e", "s">>, <<"*">>)
        s7 == Replace(s6, <<BS, "d", "i", "v">>, <<"/">>)
        s8 == Unwrap(s7, <<BS, "m", "a", "t", "h", "r", "m">>, 1)
    IN  Unwrap(s8, <<BS, "o", "p", "e", "r", "a", "t", "o", "r",
                     "n", "a", "m", "e">>, 1)

\* ------------------------------------------------------------------------
\* The stable string of an expression (sympy_str, order="lex")
\* ------------------------------------------------------------------------

DigitChar(k) == <<"0", "1", "2", "3", "4", "5", "6", "7", "8", "9">>[k + 1]

RECURSIVE NatStr(_)
NatStr(k) ==
    IF k < 10 THEN <<DigitChar(k)>>
    ELSE NatStr(k \div 10) \o <<DigitChar(k % 10)>>

\* the factors of a monomial: a*b**2
RECURSIVE MonoStr(_, _)
MonoStr(m, k) ==
    IF k > Len(Syms) THEN <<>>
    ELSE LET rest == MonoStr(m, k + 1)
             here == IF m[k] = 0 THEN <<>>
                     ELSE IF m[k] = 1 THEN <<Syms[k]>>
                     ELSE <<Syms[k], "*", "*">> \o NatStr(m[k])
         IN  IF here = <<>> THEN rest
             ELSE IF rest = <<>> THEN here
             ELSE here \o <<"*">> \o rest

\* one term without its sign
TermStr(c, m) ==
    IF m = MOne THEN NatStr(Abs(c))
    ELSE IF Abs(c) = 1 THEN MonoStr(m, 1)
    ELSE NatStr(Abs(c)) \o <<"*">> \o MonoStr(m, 1)

LexMax(S) == CHOOSE m \in S : \A m2 \in S : m2 = m \/ LexLess(m2, m)

RECURSIVE TermsStr(_, _, _)
TermsStr(S, p, first) ==
    IF S = {} THEN <<>>
    ELSE LET m == LexMax(S)
             sign == IF first THEN (IF p[m] < 0 THEN <<"-">> ELSE <<>>)
                     ELSE (IF p[m] < 0 THEN <<" ", "-", " ">>
                           ELSE <<" ", "+", " ">>)
         IN  sign \o TermStr(p[m], m) \o TermsStr(S \ {m}, p, FALSE)

PolyStr(p) == IF p = PZero THEN <<"0">> ELSE TermsStr(DOMAIN p, p, TRUE)

\* a factor of a quotient: parenthesised unless it is one symbol power or
\* a natural number
FactorStr(p) ==
    LET atomic == /\ Cardinality(DOMAIN p) = 1
                  /\ \A m \in DOMAIN p :
                        \/ m = MOne /\ p[m] > 0
                        \/ p[m] = 1 /\ Cardinality({k \in SymIdx : m[k] > 0}) = 1
    IN  IF atomic THEN PolyStr(p) ELSE <<"(">> \o PolyStr(p) \o <<")">>

\* sympy_str(expr, order="lex")
SympyStr(u) ==
    IF u.d = PZero THEN (IF u.n = PZero THEN <<"n", "a", "n">>
                         ELSE <<"z", "o", "o">>)
    ELSE IF u.d = PConst(1) THEN PolyStr(u.n)
    ELSE FactorStr(u.n) \o <<"/">> \o FactorStr(u.d)

\* expr.rel_op
RelOp(kind) ==
    CASE kind = "Eq" -> <<"=", "=">>
      [] kind = "Lt" -> <<"<">>
      [] kind = "Gt" -> <<">">>
      [] kind = "Le" -> <<"<", "=">>
      [] kind = "Ge" -> <<">", "=">>

\* ------------------------------------------------------------------------
\* The operations of ExpressionNormalizer
\* ------------------------------------------------------------------------

\* The library calls that can raise on an input outside the fragment:
\*   simplify      sp.simplify (in _canonicalize_expr, _is_zero_symbolically)
\*   sub           the subtraction of _difference_form
\*   free_symbols  diff.free_symbols
\*   evalf         val.evalf() / complex() on every evaluation
\*   func          sp.Eq / expr.func of _canonicalize
Faults == {"none", "simplify", "cancel", "log", "sub", "free_symbols", "evalf", "func"}

\* latex2sympy rejecting every string
Latex2SympyRaises(s) == Raise

\* latex2sympy(s) followed by _ensure_sympy_expr, which returns a SymPy
\* object as it is
Latex2Sympy(s) == LibParse("latex", s)

IsConstant(u) == FreeSymbols(u) = {} /\ u.d # PZero

\* sp.Eq(left_expr, right_expr): evaluates to a Boolean when both sides
\* are the same expression or are different numbers
SpEq(l, r) ==
    IF l = r THEN Parsed("True", l, r)
    ELSE IF IsConstant(l) /\ IsConstant(r) THEN Parsed("False", l, r)
    ELSE Parsed("Eq", l, r)

SpEqOfSides(left, right) ==
    IF left.kind = "Expr" /\ right.kind = "Expr"
    THEN SpEq(left.lhs, right.lhs)
    ELSE Raise

\* if "=" in s and "==" not in s
SplitAtEquals(s) == Contains(s, <<"=">>) /\ ~Contains(s, <<"=", "=">>)

\* the try block of the parse_expr fallback (lines 223-244)
ParseExprFallback(s) ==
    IF SplitAtEquals(s)
    THEN SpEqOfSides(LibParse("ascii", SubSeq(s, 1, FirstIndex(s, "=") - 1)),
                     LibParse("ascii", SubSeq(s, FirstIndex(s, "=") + 1, Len(s))))
    ELSE LibParse("ascii", s)

Sympify(s) == LibParse("sympify", s)

\* _canonicalize: both sides of a relation, or the expression
Canonicalize(e, f) ==
    IF e.kind \in RelKinds
    THEN LET lhs == CanonicalizeExpr(e.lhs, f)
             rhs == CanonicalizeExpr(e.rhs, f)
         IN  IF e.kind = "Eq" THEN SpEq(lhs, rhs) ELSE Parsed(e.kind, lhs, rhs)
    ELSE IF e.kind = "Expr"
    THEN Parsed("Expr", CanonicalizeExpr(e.lhs, f), RZero)
    ELSE e

\* _to_stable_string
ToStableString(e, f) ==
    IF e.kind \in RelKinds
    THEN SympyStr(CanonicalizeExpr(e.lhs, f))
         \o <<" ">> \o RelOp(e.kind) \o <<" ">>
         \o SympyStr(CanonicalizeExpr(e.rhs, f))
    ELSE IF e.kind = "True" THEN <<"T", "r", "u", "e">>
    ELSE IF e.kind = "False" THEN <<"F", "a", "l", "s", "e">>
    ELSE SympyStr(e.lhs)

NoDiff == [some |-> FALSE, v |-> RZero]
SomeDiff(v) == [some |-> TRUE, v |-> v]

\* a difference form that subtracts the sides of every relation
DifferenceOfAnyRelation(a, b, f) ==
    IF a.kind \in RelKinds \cup {"Expr"} /\ b.kind \in RelKinds \cup {"Expr"}
    THEN SomeDiff(RSub(RSub(a.lhs, a.rhs), RSub(b.lhs, b.rhs)))
    ELSE NoDiff

\* the difference handed on as the subtraction built it
DifferenceUncanonicalized(a, b, f) ==
    IF f = "sub" THEN NoDiff
    ELSE IF a.kind \in RelKinds /\ b.kind \in RelKinds
    THEN IF a.kind = "Eq" /\ b.kind = "Eq"
         THEN SomeDiff(RSub(RSub(a.lhs, a.rhs), RSub(b.lhs, b.rhs)))
         ELSE NoDiff
    ELSE IF a.kind = "Eq" /\ b.kind = "Expr"
    THEN SomeDiff(RSub(RSub(a.lhs, a.rhs), b.lhs))
    ELSE IF b.kind = "Eq" /\ a.kind = "Expr"
    THEN SomeDiff(RSub(a.lhs, RSub(b.lhs, b.rhs)))
    ELSE IF a.kind = "Expr" /\ b.kind = "Expr"
    THEN SomeDiff(RSub(a.lhs, b.lhs))
    ELSE NoDiff

\* _difference_form; None is NoDiff
DifferenceForm(a, b, f) ==
    IF f = "sub" THEN NoDiff
    ELSE IF a.kind \in RelKinds /\ b.kind \in RelKinds
    THEN IF a.kind = "Eq" /\ b.kind = "Eq"
         THEN SomeDiff(CanonicalizeExpr(
                  RSub(RSub(a.lhs, a.rhs), RSub(b.lhs, b.rhs)), f))
         ELSE NoDiff
    ELSE IF a.kind = "Eq" /\ b.kind = "Expr"
    THEN SomeDiff(CanonicalizeExpr(RSub(RSub(a.lhs, a.rhs), b.lhs), f))
    ELSE IF b.kind = "Eq" /\ a.kind = "Expr"
    THEN SomeDiff(CanonicalizeExpr(RSub(a.lhs, RSub(b.lhs, b.rhs)), f))
    ELSE IF a.kind = "Expr" /\ b.kind = "Expr"
    THEN SomeDiff(CanonicalizeExpr(RSub(a.lhs, b.lhs), f))
    ELSE NoDiff

\* _is_zero_symbolically
IsZeroSymbolically(expr, f) ==
    LET e == CanonicalizeExpr(expr, f)
    IN  IF IsZeroExpr(e) THEN TRUE
        ELSE IF f = "simplify" THEN FALSE
        ELSE LET e2 == SimplifyPass(e)
             IN  IF IsZeroExpr(e2) THEN TRUE
                 ELSE IF f = "cancel" THEN FALSE
                 ELSE IsZeroExpr(SimplifyPass(CancelPass(e2)))

\* _structural_equivalence
StructuralEquivalence(a, b, f) ==
    IF f = "func" THEN FALSE
    ELSE ToStableString(Canonicalize(a, f), f) = ToStableString(Canonicalize(b, f), f)

\* _numeric_equivalence: trials, the retry factor, tol = 1e-9 as 1/TolInv
Trials == 8
RetryFactor == 3
TolInv == 1000000000

domain == (0 - 5)..5
ZeroReplacement == {1, 0 - 1, 2, 0 - 2, 3, 0 - 3}
\* cand = random.choice(domain); a 0 is replaced by a choice of
\* [1, -1, 2, -2, 3, -3]
SampleValues == (domain \ {0}) \cup ZeroReplacement

\* abs(n / d) > tol
AboveTol(n, d) == n # 0 /\ Abs(d) \div Abs(n) < TolInv
\* abs(n / d) < tol
BelowTol(n, d) ==
    \/ n = 0
    \/ n # 0 /\ Abs(d) \div Abs(n) > TolInv
    \/ n # 0 /\ Abs(d) \div Abs(n) = TolInv /\ Abs(d) % Abs(n) > 0

\* What one evaluation of diff at the point pt gives: "raise" (an
\* exception, NaN or infinity), "nonzero" (above the tolerance), "zero".
SampleOutcome(u, pt, f) ==
    IF f = "evalf" \/ u.d = PZero \/ PEval(u.d, pt) = 0 THEN "raise"
    ELSE IF AboveTol(PEval(u.n, pt), PEval(u.d, pt)) THEN "nonzero"
    ELSE "zero"

\* the sample points: one value per free symbol (0 stands for a symbol
\* that does not occur)
SamplePoints(u) ==
    LET symbols == FreeSymbols(u)
    IN  {[k \in SymIdx |-> IF k \in symbols THEN subs_map[k] ELSE 0] :
            subs_map \in [symbols -> SampleValues]}

\* a loop that stops after the first valid sample near zero
EnoughAfterFirst(t) == t < Trials

\* if trials <= 0: return True (line 437)
EnoughSamples(t) == t <= 0

\* a loop without the retries for domain errors
AttemptBudgetTrialsOnly == Trials

\* range(trials * 3): the iterations of the sampling loop (line 418)
AttemptBudget == Trials * RetryFactor

\* the loop accepting when it ends without enough valid samples
ExhaustedAccepted == TRUE

\* the loop ended without enough valid samples (line 444)
ExhaustedVerdict == FALSE

\* the branch for a difference without symbols, its comparison reversed
ConstantAboveTol(u, f) ==
    IF f = "evalf" \/ u.d = PZero THEN FALSE
    ELSE AboveTol(PEval(u.n, MOne), PEval(u.d, MOne))

\* the branch for a difference without symbols (lines 408-414)
ConstantNearZero(u, f) ==
    IF f = "evalf" \/ u.d = PZero THEN FALSE
    ELSE BelowTol(PEval(u.n, MOne), PEval(u.d, MOne))

\* an except clause that lets the exception leave the operation
ExceptReraises == "raised"

\* an except clause that returns without the string comparison
ExceptReturns == "done"

\* an except clause that starts the parse again
ExceptRetriesParse == "parse_ascii"

\* where the except clause of expressions_equivalent and of
\* get_canonical_form (lines 171-176, 186-188) continues
ExceptClause == "fallback"

\* ------------------------------------------------------------------------
\* Inputs
\* ------------------------------------------------------------------------

\* Strings over the symbol x, and garbage; compare is run on every pair.
XCorpus ==
    { <<"x">>, <<"1">>,
      <<"x", "+", "1">>, <<"x", "+", "2">>,
      <<"2", "x">>, <<"2", "*", "x">>,
      <<"x", "^", "{", "2", "}">>, <<"x", "^", "2">>,
      <<"x", "^", "2", " ", "+", " ", "2", "*", "x", " ", "+", " ", "1">>,
      <<"(", "x", " ", "+", " ", "1", ")", "^", "2">>,
      <<"x", "^", "2", " ", "=", " ", "4">>, <<"4", " ", "=", " ", "x", "^", "2">>,
      <<"x", "=", "x">>,
      <<"x", " ", ">", " ", "2">>, <<"x", " ", "<", " ", "2">>,
      <<"x", "<", "=", "2">>,
      <<"1", "/", "0">>, <<"x", "/", "0">>, <<"1", "/", "x">>,
      <<"$", "x", "^", "{", "2", "}", "$">>,
      <<"(", "x", "+", "1">>, <<" ", "(", "X", " ", "+", "1">>,
      <<>>, <<CTRL>> }

\* Pairs over several symbols, in both orders.
MultiPairs ==
    { << <<"2", "*", "x", " ", "+", " ", "3">>, <<"3", " ", "+", " ", "2", "*", "x">> >>,
      << <<"a", " ", "+", " ", "b">>, <<"b", " ", "+", " ", "a">> >>,
      << <<"a", "*", "b">>, <<"b", "*", "a">> >>,
      << <<"a", "+", "b">>, <<"a", "*", "b">> >>,
      << <<BS, "f", "r", "a", "c", "{", "a", "}", "{", "b", "}">>, <<"a", "/", "b">> >>,
      << <<"c", BS, "l", "e", "f", "t", "(", "a", "+", "b", BS, "r", "i", "g", "h", "t", ")">>,
         <<"c", "*", "(", "a", "+", "b", ")">> >> }

\* One string of each kind: expression, equation, relation, undefined
\* value, unparseable.
Partners ==
    { <<"x", "^", "2">>,
      <<"x", "^", "2", " ", "=", " ", "4">>,
      <<"x", " ", ">", " ", "2">>,
      <<"1", "/", "0">>,
      <<"(", "x", "+", "1">> }

\* Further pairs of XCorpus.
XPairs ==
    { << <<"x">>, <<"1">> >>,
      << <<"x", "+", "1">>, <<"x", "+", "2">> >>,
      << <<"2", "x">>, <<"2", "*", "x">> >>,
      << <<"x", "^", "2", " ", "+", " ", "2", "*", "x", " ", "+", " ", "1">>,
         <<"(", "x", " ", "+", " ", "1", ")", "^", "2">> >>,
      << <<"x", " ", ">", " ", "2">>, <<"x", " ", "<", " ", "2">> >>,
      << <<"x", " ", "<", " ", "2">>, <<"x", "<", "=", "2">> >>,
      << <<"x", "/", "0">>, <<"1", "/", "x">> >>,
      << <<"x", "=", "x">>, <<"4", " ", "=", " ", "x", "^", "2">> >>,
      << <<"(", "x", "+", "1">>, <<" ", "(", "X", " ", "+", "1">> >>,
      << <<>>, <<CTRL>> >>,
      << <<"(", "x", "^", "2", "-", "1", ")", "*", "(", "x", "^", "2", "-", "4", ")", "*",
           "(", "x", "^", "2", "-", "9", ")", "*", "(", "x", "^", "2", "-", "1", "6", ")">>,
         <<"0">> >>,
      << <<"(", "x", ")", "(", "x">>, <<"(", "(", "x", ")", "x">> >>,
      << <<"2", "s", "i", "n", "(", "x">>, <<"a", "b", "s", "(", "x">> >>,
      << <<"(", "a", "=", "b", "=", "c">>, <<"a", "=", "b">> >> }

AllPairs == (XCorpus \X Partners) \cup XPairs \cup MultiPairs

\* The pairs compare is run on: closed under swapping, and with every
\* string paired with itself.
Inputs ==
    AllPairs
    \cup {<<pr[2], pr[1]>> : pr \in AllPairs}
    \cup {<<pr[k], pr[k]>> : pr \in AllPairs, k \in {1, 2}}

Corpus == {pr[1] : pr \in Inputs}

\* The calls of one run.
MaxCalls == 2

\* ------------------------------------------------------------------------
\* State
\* ------------------------------------------------------------------------

VARIABLES
    LATEX2SYMPY_AVAILABLE,  \* whether the import of latex2sympy2 succeeded
    op,         \* the public operation running: "compare", "normalize", "none"
    expr1,      \* its first argument
    expr2,      \* its second argument (compare)
    fault,      \* the library call that raises during this call
    pc,         \* where the operation is
    arg,        \* the argument _parse_to_sympy is parsing: 1 or 2
    e1,         \* the parsed first argument
    e2,         \* the parsed second argument
    diff,       \* the difference expression
    trials,     \* _numeric_equivalence: valid samples still needed
    attempts,   \* _numeric_equivalence: iterations of the loop so far
    val,        \* _numeric_equivalence: what the last sample evaluated to
    verdict,    \* what compare returned
    canonical,  \* what normalize_for_storage returned
    stage,      \* the stage that produced the result of the call
    last,       \* the last completed call
    calls       \* the calls made so far

\* The accounts of the application: the users table and the requests to
\* the routes that write it.
VARIABLES
    is_production,  \* Config.is_production() when the routes were defined
    email_not_null, \* whether the users table refuses a row without email
    users,          \* the rows of the users table, in the order of their ids
    handlers,       \* the registration requests being handled
    served,         \* the registration requests received so far
    change,         \* the last request to change_password
    changes         \* the requests to change_password so far

\* The regular challenge of the application: its lock, the submissions to
\* its answer boxes, the leaderboard and the POST requests to its page.
VARIABLES
    is_manually_locked,         \* Challenge.is_manually_locked
    past_lock_time,             \* datetime.now() > release_at + lock_after_hours
    first_correct_submission,   \* whether Challenge.first_correct_submission is set
    answer_submission,          \* the rows of AnswerSubmission, counted
    leaderboard_entry,          \* LeaderboardEntry.score of each user; 0 is no row
    posts,                      \* the POST requests being handled
    posted                      \* the POST requests received so far

board == <<is_manually_locked, past_lock_time, first_correct_submission,
           answer_submission, leaderboard_entry, posts, posted>>

accounts == <<is_production, email_not_null, users, handlers, served, change,
              changes, board>>

engine == <<LATEX2SYMPY_AVAILABLE, op, expr1, expr2, fault, pc, arg, e1, e2,
            diff, trials, attempts, val, verdict, canonical, stage, last,
            calls>>

vars == <<engine, accounts>>

\* the requests a run of the application handles at the same time, and
\* the requests of one run
Workers == 2
MaxRequests == 2
MaxChanges == 2
\* the POST requests to the challenge page of one run
MaxPosts == 4

\* the users who post answers; root is an administrator
SubmitUsers == {"ann", "root"}
IsAdmin(u) == u = "root"

\* the answer boxes of the challenge
Boxes == {1, 2}

\* the answers a request carries: "" fails the form's DataRequired, and
\* answer_box.check_answer accepts "right" only
Answers == {"", "right", "wrong"}
IsCorrect(answer) == answer = "right"

\* the rows of AnswerSubmission, without id, answer and time
Rows == SubmitUsers \X Boxes \X BOOLEAN

NoPost == [at |-> "idle", user |-> "none", box |-> 0, answer |-> "",
           flash |-> "none", remaining |-> 3]

BoardIdle ==
    /\ is_manually_locked = FALSE
    /\ past_lock_time = FALSE
    /\ first_correct_submission = FALSE
    /\ answer_submission = [r \in Rows |-> 0]
    /\ leaderboard_entry = [u \in SubmitUsers |-> 0]
    /\ posts = [w \in 1..Workers |-> NoPost]
    /\ posted = 0

NoHandler == [at |-> "idle", route |-> "none", full_name |-> <<>>, year |-> 0,
              password |-> "", outcome |-> "none"]

NoChange == [user |-> 0, method |-> "GET", current_password |-> "",
             new_password |-> "", confirm_password |-> "",
             before |-> <<>>, result |-> "none"]

\* no request to the account routes
AccountsIdle ==
    /\ handlers = [w \in 1..Workers |-> NoHandler]
    /\ served = 0
    /\ change = NoChange
    /\ changes = 0

NoCall == [op |-> "none", expr1 |-> <<>>, expr2 |-> <<>>,
           verdict |-> FALSE, canonical |-> <<>>, fault |-> "none"]

EngineIdle ==
    /\ op = "none"
    /\ expr1 = <<>>
    /\ expr2 = <<>>
    /\ fault = "none"
    /\ pc = "idle"
    /\ arg = 1
    /\ e1 = Raise
    /\ e2 = Raise
    /\ diff = RZero
    /\ trials = Trials
    /\ attempts = 0
    /\ val = "none"
    /\ verdict = FALSE
    /\ canonical = <<>>
    /\ stage = "none"
    /\ last = NoCall
    /\ calls = 0

\* the engine with an application that has no user and gets no request to
\* the account routes
Init ==
    /\ LATEX2SYMPY_AVAILABLE \in BOOLEAN
    /\ EngineIdle
    /\ is_production = FALSE
    /\ email_not_null = TRUE
    /\ users = <<>>
    /\ AccountsIdle
    /\ BoardIdle

\* a parser that never tries latex2sympy
FirstStrategyAscii == "parse_ascii"

\* the first strategy of _parse_to_sympy
FirstStrategy == IF LATEX2SYMPY_AVAILABLE THEN "parse_latex" ELSE "parse_ascii"

\* What the caller passes to compare next: after a call of compare, the
\* same two strings again, in either order.
NextInputs ==
    IF last.op = "compare"
    THEN {<<last.expr1, last.expr2>>, <<last.expr2, last.expr1>>}
    ELSE IF last.op = "normalize" THEN {}
    ELSE Inputs

\* What the caller passes to normalize_for_storage next: after a call of
\* compare, one of its two strings; after a call of normalize_for_storage,
\* the string it returned.
NextStrings ==
    IF last.op = "normalize" THEN {last.canonical}
    ELSE {pr[1] : pr \in NextInputs}

\* the library behaves in the next call as it did in the last
NextFaults == IF last.op # "none" THEN {last.fault} ELSE Faults

\* compare_mathematical_expressions(user_answer, correct_answer) on one of
\* the pairs
CompareOn(pairs) ==
    /\ pc = "idle"
    /\ calls < MaxCalls
    /\ \E pr \in pairs, f \in NextFaults :
        /\ expr1' = pr[1]
        /\ expr2' = pr[2]
        /\ fault' = f
    /\ op' = "compare"
    /\ pc' = FirstStrategy
    /\ arg' = 1
    /\ e1' = Raise
    /\ e2' = Raise
    /\ diff' = RZero
    /\ trials' = Trials
    /\ attempts' = 0
    /\ val' = "none"
    /\ verdict' = FALSE
    /\ stage' = "none"
    /\ calls' = calls + 1
    /\ UNCHANGED <<accounts, LATEX2SYMPY_AVAILABLE, canonical, last>>

Compare == CompareOn(NextInputs)

\* normalize_expression_for_storage(expression)
Normalize ==
    /\ pc = "idle"
    /\ calls < MaxCalls
    /\ \E s \in NextStrings, f \in NextFaults :
        /\ expr1' = s
        /\ fault' = f
    /\ expr2' = <<>>
    /\ op' = "normalize"
    /\ pc' = FirstStrategy
    /\ arg' = 1
    /\ e1' = Raise
    /\ e2' = Raise
    /\ diff' = RZero
    /\ trials' = Trials
    /\ attempts' = 0
    /\ val' = "none"
    /\ canonical' = <<>>
    /\ stage' = "none"
    /\ calls' = calls + 1
    /\ UNCHANGED <<accounts, LATEX2SYMPY_AVAILABLE, verdict, last>>

\* s = expression_str.strip() of the argument being parsed
CurrentInput == Strip(IF arg = 1 THEN expr1 ELSE expr2)

\* _parse_to_sympy returns r
Return(r) ==
    IF op = "compare" /\ arg = 1
    THEN /\ e1' = r
         /\ arg' = 2
         /\ pc' = FirstStrategy
         /\ UNCHANGED e2
    ELSE IF op = "compare"
    THEN /\ e2' = r
         /\ pc' = "difference"
         /\ UNCHANGED <<e1, arg>>
    ELSE /\ e1' = r
         /\ pc' = "canonical"
         /\ UNCHANGED <<e2, arg>>

ParseFrame == <<accounts, LATEX2SYMPY_AVAILABLE, op, expr1, expr2, fault, diff, trials,
                attempts, val, verdict, canonical, stage, last, calls>>

\* strategy 1: latex2sympy on the stripped string
ParseLatex ==
    /\ pc = "parse_latex"
    /\ LET r == Latex2Sympy(CurrentInput)
       IN  IF r.kind # "Raise" THEN Return(r)
           ELSE /\ pc' = IF IsLatexExpression(CurrentInput)
                         THEN "parse_retry" ELSE "parse_ascii"
                /\ UNCHANGED <<e1, e2, arg>>
    /\ UNCHANGED ParseFrame

\* strategy 2: the cleanup and one retry of latex2sympy
ParseRetry ==
    /\ pc = "parse_retry"
    /\ LET r == Latex2Sympy(MinimalLatexCleanup(CurrentInput))
       IN  IF r.kind # "Raise" THEN Return(r)
           ELSE /\ pc' = "parse_ascii"
                /\ UNCHANGED <<e1, e2, arg>>
    /\ UNCHANGED ParseFrame

\* strategy 3: parse_expr
ParseAscii ==
    /\ pc = "parse_ascii"
    /\ LET r == ParseExprFallback(CurrentInput)
       IN  IF r.kind # "Raise" THEN Return(r)
           ELSE /\ pc' = "parse_sympify"
                /\ UNCHANGED <<e1, e2, arg>>
    /\ UNCHANGED ParseFrame

\* strategy 4: sp.sympify; its exception is the parse error
ParseSympify ==
    /\ pc = "parse_sympify"
    /\ LET r == Sympify(CurrentInput)
       IN  IF r.kind # "Raise" THEN Return(r)
           ELSE /\ pc' = ExceptClause
                /\ UNCHANGED <<e1, e2, arg>>
    /\ UNCHANGED ParseFrame

\* diff = self._difference_form(e1, e2)
Difference ==
    /\ pc = "difference"
    /\ LET d == DifferenceForm(e1, e2, fault)
       IN  /\ diff' = d.v
           /\ pc' = IF d.some THEN "symbolic" ELSE "structural"
    /\ UNCHANGED <<accounts, LATEX2SYMPY_AVAILABLE, op, expr1, expr2, fault, arg, e1, e2,
                   trials, attempts, val, verdict, canonical, stage, last,
                   calls>>

\* return self._structural_equivalence(e1, e2)
Structural ==
    /\ pc = "structural"
    /\ verdict' = StructuralEquivalence(e1, e2, fault)
    /\ stage' = "structural"
    /\ pc' = "done"
    /\ UNCHANGED <<accounts, LATEX2SYMPY_AVAILABLE, op, expr1, expr2, fault, arg, e1, e2,
                   diff, trials, attempts, val, canonical, last, calls>>

\* if self._is_zero_symbolically(diff): return True
Symbolic ==
    /\ pc = "symbolic"
    /\ IF IsZeroSymbolically(diff, fault)
       THEN verdict' = TRUE /\ pc' = "done" /\ stage' = "symbolic"
       ELSE verdict' = verdict /\ pc' = "numeric" /\ stage' = stage
    /\ UNCHANGED <<accounts, LATEX2SYMPY_AVAILABLE, op, expr1, expr2, fault, arg, e1, e2,
                   diff, trials, attempts, val, canonical, last, calls>>

\* _numeric_equivalence up to the loop: the symbols, the constant branch
Numeric ==
    /\ pc = "numeric"
    /\ IF fault = "free_symbols"
       THEN pc' = ExceptClause /\ verdict' = verdict /\ stage' = stage
       ELSE IF FreeSymbols(diff) = {}
       THEN /\ pc' = "done"
            /\ verdict' = ConstantNearZero(diff, fault)
            /\ stage' = "constant"
       ELSE pc' = "probe" /\ verdict' = verdict /\ stage' = stage
    /\ trials' = Trials
    /\ attempts' = 0
    /\ UNCHANGED <<accounts, LATEX2SYMPY_AVAILABLE, op, expr1, expr2, fault, arg, e1, e2,
                   diff, val, canonical, last, calls>>

\* one iteration of the sampling loop
Probe ==
    /\ pc = "probe"
    /\ attempts < AttemptBudget
    /\ \E pt \in SamplePoints(diff) :
        LET out == SampleOutcome(diff, pt, fault)
        IN  /\ attempts' = attempts + 1
            /\ val' = out
            /\ IF out = "raise"
               THEN UNCHANGED <<trials, verdict, pc, stage>>
               ELSE IF out = "nonzero"
               THEN /\ verdict' = FALSE
                    /\ pc' = "done"
                    /\ stage' = "probe"
                    /\ UNCHANGED trials
               ELSE /\ trials' = trials - 1
                    /\ IF EnoughSamples(trials')
                       THEN verdict' = TRUE /\ pc' = "done" /\ stage' = "probe"
                       ELSE UNCHANGED <<verdict, pc, stage>>
    /\ UNCHANGED <<accounts, LATEX2SYMPY_AVAILABLE, op, expr1, expr2, fault, arg, e1, e2,
                   diff, canonical, last, calls>>

\* the loop ends without enough valid samples: return False
ProbeExhausted ==
    /\ pc = "probe"
    /\ attempts >= AttemptBudget
    /\ verdict' = ExhaustedVerdict
    /\ stage' = "exhausted"
    /\ pc' = "done"
    /\ UNCHANGED <<accounts, LATEX2SYMPY_AVAILABLE, op, expr1, expr2, fault, arg, e1, e2,
                   diff, trials, attempts, val, canonical, last, calls>>

\* get_canonical_form: _canonicalize, then _to_stable_string
Canonical ==
    /\ pc = "canonical"
    /\ IF fault = "func" /\ e1.kind \in RelKinds
       THEN pc' = ExceptClause /\ UNCHANGED <<canonical, stage>>
       ELSE /\ canonical' = ToStableString(Canonicalize(e1, fault), fault)
            /\ stage' = "canonical"
            /\ pc' = "done"
    /\ UNCHANGED <<accounts, LATEX2SYMPY_AVAILABLE, op, expr1, expr2, fault, arg, e1, e2,
                   diff, trials, attempts, val, verdict, last, calls>>

\* the except clause: _basic_string_normalization of the original strings
Fallback ==
    /\ pc = "fallback"
    /\ IF op = "compare"
       THEN /\ verdict' = (BasicStringNormalization(expr1) = BasicStringNormalization(expr2))
            /\ UNCHANGED canonical
       ELSE /\ canonical' = BasicStringNormalization(expr1)
            /\ UNCHANGED verdict
    /\ stage' = "fallback"
    /\ pc' = "done"
    /\ UNCHANGED <<accounts, LATEX2SYMPY_AVAILABLE, op, expr1, expr2, fault, arg, e1, e2,
                   diff, trials, attempts, val, last, calls>>

\* the operation returns to its caller; its locals are gone
Finish ==
    /\ pc = "done"
    /\ pc' = "idle"
    /\ last' = [op |-> op, expr1 |-> expr1, expr2 |-> expr2,
                 verdict |-> verdict, canonical |-> canonical, fault |-> fault]
    /\ op' = "none"
    /\ expr1' = <<>>
    /\ expr2' = <<>>
    /\ fault' = "none"
    /\ arg' = 1
    /\ e1' = Raise
    /\ e2' = Raise
    /\ diff' = RZero
    /\ trials' = Trials
    /\ attempts' = 0
    /\ val' = "none"
    /\ verdict' = FALSE
    /\ canonical' = <<>>
    /\ stage' = "none"
    /\ UNCHANGED <<accounts, LATEX2SYMPY_AVAILABLE, calls>>

Next ==
    \/ Compare
    \/ Normalize
    \/ ParseLatex
    \/ ParseRetry
    \/ ParseAscii
    \/ ParseSympify
    \/ Difference
    \/ Structural
    \/ Symbolic
    \/ Numeric
    \/ Probe
    \/ ProbeExhausted
    \/ Canonical
    \/ Fallback
    \/ Finish

Spec == Init /\ [][Next]_vars

\* ------------------------------------------------------------------------
\* The account routes: /register, /register_admin, /profile/change_password
\* ------------------------------------------------------------------------

\* werkzeug's generate_password_hash; the salt is left out, so two hashes
\* of one password are the same value
GeneratePasswordHash(password) == <<"pbkdf2", password>>

\* a check of the password that accepts every password
CheckAnyPassword(pwhash, password) == TRUE

\* werkzeug's check_password_hash
CheckPasswordHash(pwhash, password) == pwhash = GeneratePasswordHash(password)

\* the user init_db.py creates
AdminUser ==
    [full_name |-> <<"A", "d", "m", "i", "n", " ", "U", "s", "e", "r">>,
     year |-> 13,
     is_admin |-> TRUE,
     email |-> "admin@ucgs.ac.uk",
     password_hash |-> GeneratePasswordHash("admin123")]

\* What the registration form is filled with.
FirstNames ==
    { <<"A", "d", "m", "i", "n">>,
      <<"A", "d", "m", "i", "n", " ">>,
      <<"A", "d", " ", "m", "i", "n">>,
      <<"d", "a", "m", "n">> }
LastNames == { <<"U", "s", "e", "r">> }
Years == {12, 13}
Passwords == {"admin123", "secret"}

\* authenticated: current_user.is_authenticated; valid: what
\* form.validate_on_submit() returns (a POST whose fields pass the
\* validators of RegistrationForm)
RegisterForms ==
    [authenticated : BOOLEAN, valid : BOOLEAN, first_name : FirstNames,
     last_name : LastNames, year : Years, password : Passwords]

\* better_profanity's contains_profanity, on a word list of one word
ContainsProfanity(text) == Contains(text, <<"d", "a", "m", "n">>)

\* full_name = f"{first_name} {last_name}" of the stripped names
FullName(form) == Strip(form.first_name) \o <<" ">> \o Strip(form.last_name)

\* the route up to the query for an existing user: how it returns, "none"
\* when it goes on to the query
Preflight(route, form) ==
    IF route = "register_admin" /\ is_production THEN "disabled"
    ELSE IF form.authenticated THEN "redirect"
    ELSE IF ~form.valid THEN "form"
    ELSE IF /\ route = "register"
            /\ \/ Contains(Strip(form.first_name), <<" ">>)
               \/ Contains(Strip(form.last_name), <<" ">>)
    THEN "whitespace"
    ELSE IF ContainsProfanity(FullName(form)) THEN "profanity"
    ELSE "none"

\* a worker receives a request to /register or /register_admin and runs
\* the route up to the query for an existing user
Submit(w) ==
    /\ handlers[w].at \in {"idle", "done"}
    /\ served < MaxRequests
    /\ \E route \in {"register", "register_admin"}, form \in RegisterForms :
        handlers' = [handlers EXCEPT ![w] =
            IF Preflight(route, form) # "none"
            THEN [NoHandler EXCEPT !.at = "done", !.route = route,
                                   !.outcome = Preflight(route, form)]
            ELSE [at |-> "query", route |-> route,
                  full_name |-> FullName(form), year |-> form.year,
                  password |-> form.password, outcome |-> "none"]]
    /\ served' = served + 1
    /\ UNCHANGED <<engine, board, is_production, email_not_null, users, change, changes>>

\* User.query.filter(User.full_name == full_name, User.year == year).first()
ExistingUser(full_name, year) ==
    \E i \in DOMAIN users :
        users[i].full_name = full_name /\ users[i].year = year

\* existing_user = ...; if existing_user: flash and redirect
Query(w) ==
    /\ handlers[w].at = "query"
    /\ handlers' = [handlers EXCEPT ![w] =
            IF ExistingUser(handlers[w].full_name, handlers[w].year)
            THEN [@ EXCEPT !.at = "done", !.outcome = "exists"]
            ELSE [@ EXCEPT !.at = "commit"]]
    /\ UNCHANGED <<engine, board, is_production, email_not_null, users, served, change,
                   changes>>

\* the row of User(full_name=..., year=..., ...) after set_password: the
\* routes give it no email
NewUser(h) ==
    [full_name |-> h.full_name,
     year |-> h.year,
     is_admin |-> h.route = "register_admin",
     email |-> "NULL",
     password_hash |-> GeneratePasswordHash(h.password)]

\* db.session.add(user); db.session.commit(): the INSERT raises
\* IntegrityError when the table refuses a row without email
Commit(w) ==
    /\ handlers[w].at = "commit"
    /\ IF email_not_null
       THEN /\ handlers' = [handlers EXCEPT ![w] =
                    [@ EXCEPT !.at = "done", !.outcome = "error"]]
            /\ UNCHANGED users
       ELSE /\ handlers' = [handlers EXCEPT ![w] =
                    [@ EXCEPT !.at = "done", !.outcome = "created"]]
            /\ users' = Append(users, NewUser(handlers[w]))
    /\ UNCHANGED <<engine, board, is_production, email_not_null, served, change, changes>>

\* What the change_password form is filled with; "" is a missing field.
PasswordFields == Passwords \cup {""}

\* how change_password returns for the user with the id u (0: nobody is
\* logged in)
ChangePasswordResult(u, method, current_password, new_password, confirm_password) ==
    IF u = 0 THEN "login"
    ELSE IF \/ method # "POST"
            \/ "" \in {current_password, new_password, confirm_password}
    THEN "form"
    ELSE IF ~CheckPasswordHash(users[u].password_hash, current_password)
    THEN "invalid"
    ELSE IF current_password = new_password THEN "same"
    ELSE IF new_password # confirm_password THEN "mismatch"
    ELSE "updated"

\* a request to /profile/change_password
ChangePassword ==
    /\ changes < MaxChanges
    /\ \E u \in 0..Len(users), method \in {"GET", "POST"},
          cur \in PasswordFields, new \in PasswordFields, conf \in PasswordFields :
        LET result == ChangePasswordResult(u, method, cur, new, conf)
        IN  /\ change' = [user |-> u, method |-> method,
                          current_password |-> cur, new_password |-> new,
                          confirm_password |-> conf,
                          before |-> IF u = 0 THEN <<>> ELSE users[u].password_hash,
                          result |-> result]
            /\ users' = IF result = "updated"
                        THEN [users EXCEPT ![u].password_hash =
                                  GeneratePasswordHash(new)]
                        ELSE users
    /\ changes' = changes + 1
    /\ UNCHANGED <<engine, board, is_production, email_not_null, handlers, served>>

\* The application with the engine idle: the environment of the routes
\* and the users table as the database holds it.
AccountInit ==
    /\ LATEX2SYMPY_AVAILABLE \in BOOLEAN
    /\ EngineIdle
    /\ is_production \in BOOLEAN
    /\ email_not_null \in BOOLEAN
    /\ users \in {<<>>, <<AdminUser>>}
    /\ AccountsIdle
    /\ BoardIdle

\* the workers handle requests to /register and /register_admin, each
\* at its own pace
RegisterNext ==
    \/ \E w \in 1..Workers : Submit(w)
    \/ \E w \in 1..Workers : Query(w)
    \/ \E w \in 1..Workers : Commit(w)

RegisterSpec == AccountInit /\ [][RegisterNext]_vars

\* requests to /profile/change_password, one after the other
ProfileNext == ChangePassword

ProfileSpec == AccountInit /\ [][ProfileNext]_vars

\* ------------------------------------------------------------------------
\* The challenge page: /challenges/<id>, /admin/challenges/toggle_lock/<id>
\* ------------------------------------------------------------------------

\* what the submission routes leave alone
Registry == <<is_production, email_not_null, users, handlers, served, change,
              changes>>

\* Challenge.is_locked
is_locked == is_manually_locked \/ past_lock_time

\* check_submission_count
CheckSubmissionCount(user_id, box_id) ==
    answer_submission[<<user_id, box_id, TRUE>>]
    + answer_submission[<<user_id, box_id, FALSE>>]

\* has_correct_submission: a correct row of the user for the challenge
HasCorrectSubmission(user_id) ==
    \E b \in Boxes : answer_submission[<<user_id, b, TRUE>>] > 0

\* the correct rows of the user for the challenge: filter_by(...).count()
RECURSIVE CorrectRows(_, _)
CorrectRows(user_id, boxes) ==
    IF boxes = {} THEN 0
    ELSE LET b == CHOOSE x \in boxes : TRUE
         IN  answer_submission[<<user_id, b, TRUE>>]
             + CorrectRows(user_id, boxes \ {b})

\* check_all_answers_correct: a correct row for every answer box
CheckAllAnswersCorrect(user_id) ==
    /\ Boxes # {}
    /\ \A b \in Boxes : answer_submission[<<user_id, b, TRUE>>] > 0

\* completed_users_subquery: the other users whose correct rows cover as
\* many distinct boxes as the challenge has
CompletedUsers(user_id) ==
    {v \in SubmitUsers \ {user_id} :
        Cardinality({b \in Boxes : answer_submission[<<v, b, TRUE>>] > 0})
            = Cardinality(Boxes)}

\* update_leaderboard
UpdateLeaderboard(user_id, score) ==
    leaderboard_entry' = [leaderboard_entry EXCEPT ![user_id] = @ + score]

\* the route challenge, on a POST of a logged-in regular-challenge user to
\* the released challenge: the challenge row is loaded and is_locked
\* decides whether handle_challenge_submission runs
Post(w) ==
    /\ posts[w].at \in {"idle", "done"}
    /\ posted < MaxPosts
    /\ posted' = posted + 1
    /\ \E u \in SubmitUsers, b \in Boxes, a \in Answers :
        posts' = [posts EXCEPT ![w] =
            IF ~is_locked \/ IsAdmin(u)
            THEN [at |-> "attempts", user |-> u, box |-> b, answer |-> a,
                  flash |-> "none", remaining |-> 3]
            ELSE [at |-> "done", user |-> u, box |-> b, answer |-> a,
                  flash |-> "locked", remaining |-> 3]]
    /\ UNCHANGED <<engine, Registry, is_manually_locked, past_lock_time,
                   first_correct_submission, answer_submission,
                   leaderboard_entry>>

\* handle_challenge_submission up to create_submission: the form is
\* validated and the attempts are counted
Attempts(w) ==
    /\ posts[w].at = "attempts"
    /\ LET p == posts[w]
           submission_count == CheckSubmissionCount(p.user, p.box)
       IN  posts' = [posts EXCEPT ![w] =
               IF p.answer = ""
               THEN [p EXCEPT !.at = "done", !.flash = "invalid"]
               ELSE IF submission_count >= 3 /\ ~HasCorrectSubmission(p.user)
               THEN [p EXCEPT !.at = "done", !.flash = "maximum"]
               ELSE [p EXCEPT !.at = "create"]]
    /\ UNCHANGED <<engine, Registry, is_manually_locked, past_lock_time,
                   first_correct_submission, answer_submission,
                   leaderboard_entry, posted>>

\* create_submission: the row is added and committed
CreateSubmission(w) ==
    /\ posts[w].at = "create"
    /\ LET p == posts[w]
       IN  answer_submission' =
               [answer_submission EXCEPT ![<<p.user, p.box, IsCorrect(p.answer)>>] = @ + 1]
    /\ posts' = [posts EXCEPT ![w].at = "result"]
    /\ UNCHANGED <<engine, Registry, is_manually_locked, past_lock_time,
                   first_correct_submission, leaderboard_entry, posted>>

\* handle_submission_result
HandleSubmissionResult(w) ==
    /\ posts[w].at = "result"
    /\ LET p == posts[w]
           submission_count == CheckSubmissionCount(p.user, p.box)
           user_correct_boxes == CorrectRows(p.user, Boxes)
           total_boxes == Cardinality(Boxes)
       IN  IF IsCorrect(p.answer)
           THEN IF user_correct_boxes = total_boxes
                THEN IF Cardinality(CompletedUsers(p.user)) = 0
                     THEN /\ UpdateLeaderboard(p.user, 3)
                          /\ first_correct_submission' = TRUE
                          /\ posts' = [posts EXCEPT ![w] =
                                 [p EXCEPT !.at = "done", !.flash = "first"]]
                     ELSE /\ UpdateLeaderboard(p.user, 1)
                          /\ posts' = [posts EXCEPT ![w] =
                                 [p EXCEPT !.at = "done", !.flash = "completed"]]
                          /\ UNCHANGED first_correct_submission
                ELSE /\ posts' = [posts EXCEPT ![w] =
                            [p EXCEPT !.at = "done", !.flash = "correct"]]
                     /\ UNCHANGED <<leaderboard_entry, first_correct_submission>>
           ELSE /\ posts' = [posts EXCEPT ![w] =
                       [p EXCEPT !.at = "done", !.flash = "incorrect",
                                 !.remaining = 3 - submission_count]]
                /\ UNCHANGED <<leaderboard_entry, first_correct_submission>>
    /\ UNCHANGED <<engine, Registry, is_manually_locked, past_lock_time,
                   answer_submission, posted>>

\* toggle_challenge_lock, by an administrator
ToggleChallengeLock ==
    /\ is_manually_locked' = ~is_manually_locked
    /\ UNCHANGED <<engine, Registry, past_lock_time, first_correct_submission,
                   answer_submission, leaderboard_entry, posts, posted>>

\* the clock passes release_at + lock_after_hours
LockTimePasses ==
    /\ ~past_lock_time
    /\ past_lock_time' = TRUE
    /\ UNCHANGED <<engine, Registry, is_manually_locked, first_correct_submission,
                   answer_submission, leaderboard_entry, posts, posted>>

\* The application with the engine idle and nobody registering: a
\* released challenge with two answer boxes and no submissions yet.
SubmissionInit ==
    /\ LATEX2SYMPY_AVAILABLE = TRUE
    /\ EngineIdle
    /\ is_production = FALSE
    /\ email_not_null = TRUE
    /\ users = <<>>
    /\ AccountsIdle
    /\ BoardIdle

\* the workers handle POST requests to the challenge page, each at its
\* own pace, while an administrator toggles the lock and time passes
SubmissionNext ==
    \/ \E w \in 1..Workers : Post(w)
    \/ \E w \in 1..Workers : Attempts(w)
    \/ \E w \in 1..Workers : CreateSubmission(w)
    \/ \E w \in 1..Workers : HandleSubmissionResult(w)
    \/ ToggleChallengeLock
    \/ LockTimePasses

SubmissionSpec == SubmissionInit /\ [][SubmissionNext]_vars

\* ------------------------------------------------------------------------
\* Properties
\* ------------------------------------------------------------------------

\* compare has produced its verdict and is about to return it
CompareDone == pc = "done" /\ op = "compare"
\* normalize_for_storage has produced its string and is about to return it
NormalizeDone == pc = "done" /\ op = "normalize"

\* _parse_to_sympy raised for the first or for the second argument
ParseFailed == e1.kind = "Raise" \/ e2.kind = "Raise"

IsString(s) == DOMAIN s = 1..Len(s) /\ \A k \in 1..Len(s) : s[k] \in STRING

\* the call in hand repeats the previous call with its arguments swapped
SwappedRepeat ==
    /\ last.op = "compare"
    /\ last.expr1 = expr2
    /\ last.expr2 = expr1
    /\ last.fault = fault

\* the value of u is undefined at every sample point
UndefinedEverywhere(u) ==
    \A pt \in SamplePoints(u) : u.d = PZero \/ PEval(u.d, pt) = 0

\* a parsed input none of whose sides is an undefined value
Valid(e) == e.kind # "Raise" /\ ~IsUndefined(e.lhs) /\ ~IsUndefined(e.rhs)

SquareEqFour == <<"x", "^", "2", " ", "=", " ", "4">>
FourEqSquare == <<"4", " ", "=", " ", "x", "^", "2">>
Expanded == <<"x", "^", "2", " ", "+", " ", "2", "*", "x", " ", "+", " ", "1">>
Factored == <<"(", "x", " ", "+", " ", "1", ")", "^", "2">>
LatexFrac == <<BS, "f", "r", "a", "c", "{", "a", "}", "{", "b", "}">>
LatexLeftRight ==
    <<"c", BS, "l", "e", "f", "t", "(", "a", "+", "b", BS, "r", "i", "g", "h", "t", ")">>

\* the same operands in a different order
CommutedPairs ==
    { << <<"a", " ", "+", " ", "b">>, <<"b", " ", "+", " ", "a">> >>,
      << <<"a", "*", "b">>, <<"b", "*", "a">> >>,
      << <<"2", "*", "x", " ", "+", " ", "3">>, <<"3", " ", "+", " ", "2", "*", "x">> >> }

\* implicit against explicit multiplication
ImplicitPairs == { << <<"2", "x">>, <<"2", "*", "x">> >> }

\* LaTeX against ASCII notation
LatexPairs ==
    { << <<"x", "^", "{", "2", "}">>, <<"x", "^", "2">> >>,
      << LatexFrac, <<"a", "/", "b">> >>,
      << LatexLeftRight, <<"c", "*", "(", "a", "+", "b", ")">> >> }

BothOrders(S) == S \cup {<<pr[2], pr[1]>> : pr \in S}

\* C1: neither compare nor normalize_for_storage lets an exception reach
\* its caller, whichever stage fails: compare always ends with a Boolean
\* and normalize_for_storage with a string.
C1_NoExceptionPropagates ==
    /\ pc # "raised"
    /\ CompareDone =>
        /\ verdict \in BOOLEAN
        /\ stage \in {"structural", "symbolic", "constant", "probe",
                      "exhausted", "fallback"}
    /\ NormalizeDone =>
        /\ IsString(canonical)
        /\ stage \in {"canonical", "fallback"}

\* normalize_for_storage of a control byte returns the fallback string
C1_Witness ==
    /\ NormalizeDone
    /\ expr1 = <<CTRL>>
    /\ stage = "fallback"
    /\ canonical = <<CTRL>>

\* C2: when the parse of either input of compare fails, the verdict is
\* the equality of the fallback-normalized original strings.
C2_ParseFailureComparesStrings ==
    (CompareDone /\ ParseFailed) =>
        /\ stage = "fallback"
        /\ verdict = (BasicStringNormalization(expr1) = BasicStringNormalization(expr2))

\* two different unparseable strings with one fallback form are accepted
C2_Witness ==
    /\ CompareDone
    /\ ParseFailed
    /\ expr1 # expr2
    /\ verdict = TRUE

\* C3: for two parsed inputs whose difference is undefined at every
\* sample point, or is an undefined value without variables, compare
\* returns false.
C3_UndefinedDifferenceRejected ==
    ( /\ CompareDone
      /\ ~ParseFailed
      /\ stage \in {"symbolic", "constant", "probe", "exhausted"}
      /\ UndefinedEverywhere(diff) ) => verdict = FALSE

\* the sampling loop used all its iterations on an undefined difference
C3_Witness ==
    /\ CompareDone
    /\ stage = "exhausted"
    /\ attempts = Trials * RetryFactor
    /\ UndefinedEverywhere(diff)
    /\ FreeSymbols(diff) # {}
    /\ verdict = FALSE

\* C4: compare of a valid expression, equation or relation with itself
\* returns true, when no library call raises.
C4_Reflexive ==
    ( /\ CompareDone
      /\ expr1 = expr2
      /\ fault = "none"
      /\ Valid(e1)
      /\ Valid(e2) ) => verdict = TRUE

\* a relation that is no equation compared with itself
C4_Witness ==
    /\ CompareDone
    /\ expr1 = expr2
    /\ fault = "none"
    /\ e1.kind = "Gt"
    /\ e2.kind = "Gt"
    /\ verdict = TRUE

\* C5: compare(E1, E2) and compare(E2, E1) return the same verdict.
C5_Symmetric ==
    (CompareDone /\ SwappedRepeat /\ fault = "none") => verdict = last.verdict

\* C6: an equation and the same equation with its sides swapped compare
\* as true.
C6_SwappedSidesEquivalent ==
    ( /\ CompareDone
      /\ fault = "none"
      /\ expr1 = SquareEqFour
      /\ expr2 = FourEqSquare ) => verdict = TRUE

\* C7: two plain expressions whose difference is a constant other than
\* zero compare as false, whatever the sampling does.
C7_ConstantOffsetRejected ==
    ( /\ CompareDone
      /\ e1.kind = "Expr"
      /\ e2.kind = "Expr"
      /\ IsConstant(RSub(e1.lhs, e2.lhs))
      /\ ~IsZeroExpr(RSub(e1.lhs, e2.lhs)) ) => verdict = FALSE

\* x + 1 against x + 2 is settled by the branch without symbols
C7_Witness ==
    /\ CompareDone
    /\ expr1 = <<"x", "+", "1">>
    /\ expr2 = <<"x", "+", "2">>
    /\ stage = "constant"
    /\ verdict = FALSE

\* C8: two sums or two products of the same operands in a different
\* order compare as true.
C8_Commutative ==
    (CompareDone /\ <<expr1, expr2>> \in BothOrders(CommutedPairs)) => verdict = TRUE

\* a*b against b*a
C8_Witness ==
    /\ CompareDone
    /\ expr1 = <<"a", "*", "b">>
    /\ expr2 = <<"b", "*", "a">>
    /\ e1.kind = "Expr"
    /\ verdict = TRUE

\* C9: a polynomial in factored form and the same polynomial expanded
\* compare as true.
C9_ExpansionEquivalent ==
    (CompareDone /\ <<expr1, expr2>> \in BothOrders({<<Expanded, Factored>>}))
        => verdict = TRUE

\* x^2 + 2*x + 1 against (x + 1)^2 is settled by the symbolic test
C9_Witness ==
    /\ CompareDone
    /\ expr1 = Expanded
    /\ expr2 = Factored
    /\ stage = "symbolic"
    /\ verdict = TRUE

RepeatOnOutput ==
    /\ last.op = "normalize"
    /\ expr1 = last.canonical
    /\ last.fault = fault

\* C11: normalize_for_storage applied to its own output returns that
\* output.
C11_Idempotent ==
    (NormalizeDone /\ RepeatOnOutput /\ fault = "none") => canonical = last.canonical

\* the call in hand repeats the previous call of compare
SameRepeat ==
    /\ last.op = "compare"
    /\ last.expr1 = expr1
    /\ last.expr2 = expr2
    /\ last.fault = fault

\* C12: two calls of compare on the same pair of strings return the same
\* verdict.
C12_Pure ==
    (CompareDone /\ SameRepeat /\ fault = "none") => verdict = last.verdict

\* the relations that are no equations
Inequalities == RelKinds \ {"Eq"}

\* C13: when a parsed input of compare is a relation other than an
\* equation, the symbolic test and the numeric probing are not entered,
\* and the verdict is the equality of the canonical stable strings of the
\* two inputs (false when building them raises).
C13_InequalityComparedStructurally ==
    (op = "compare" /\ ~ParseFailed /\ pc \notin {"idle", "difference"}
        /\ (e1.kind \in Inequalities \/ e2.kind \in Inequalities))
    => /\ pc \in {"structural", "done"}
       /\ attempts = 0
       /\ pc = "done" =>
            /\ stage = "structural"
            /\ verdict = ( /\ fault # "func"
                           /\ ToStableString(Canonicalize(e1, fault), fault)
                                = ToStableString(Canonicalize(e2, fault), fault) )

\* x > 2 against x < 2: rejected by the structural comparison
C13_Witness ==
    /\ CompareDone
    /\ e1.kind = "Gt"
    /\ e2.kind = "Lt"
    /\ stage = "structural"
    /\ fault = "none"
    /\ verdict = FALSE

\* the difference of two plain expressions before it is canonicalized
RawDifference == RSub(e1.lhs, e2.lhs)

\* compare holds the difference form of two plain expressions
HoldsDifference ==
    /\ op = "compare"
    /\ pc \in {"symbolic", "numeric", "probe", "done"}
    /\ e1.kind = "Expr"
    /\ e2.kind = "Expr"
    /\ fault # "sub"
    /\ (pc = "done" => stage \in {"symbolic", "constant", "probe", "exhausted"})

C15_ReturnsLastSuccessfulState ==
    /\ (HoldsDifference /\ fault = "simplify") => diff = RawDifference
    /\ (HoldsDifference /\ fault = "cancel") => diff = SimplifyPass(RawDifference)

\* C15: an exception of the logarithm passes is passed over and the
\* pipeline goes on from the expression as it stood; an exception of
\* sp.cancel returns the input of the canonicalizer although sp.simplify
\* had succeeded.
C15_OnlyLogFailureKeepsProgress ==
    /\ (HoldsDifference /\ fault = "log")
            => diff = SimplifyPass(CancelPass(SimplifyPass(RawDifference)))
    /\ (HoldsDifference /\ fault = "cancel" /\ pc = "symbolic")
            => diff = RawDifference

\* the logarithm passes raised on a difference the pipeline changes
C15_Witness ==
    /\ HoldsDifference
    /\ fault = "log"
    /\ pc = "symbolic"
    /\ SimplifyPass(RawDifference) # RawDifference
    /\ diff = SimplifyPass(CancelPass(SimplifyPass(RawDifference)))

\* ------------------------------------------------------------------------
\* Numeric probing: compare on differences with roots and poles among
\* the sample values
\* ------------------------------------------------------------------------

\* (x-1)/(x-2): zero at the sample value 1, undefined at 2
RootAndPole == <<"(", "x", "-", "1", ")", "/", "(", "x", "-", "2", ")">>

ProbePairs ==
    { <<RootAndPole, <<"0">> >>,
      << <<"x">>, <<"1">> >>,
      << <<"x", "+", "1">>, <<"x", "+", "2">> >>,
      << <<"x", " ", ">", " ", "2">>, <<"x", " ", "<", " ", "2">> >>,
      << <<"(", "x", "+", "1">>, <<" ", "(", "X", " ", "+", "1">> >>,
      << LatexFrac, <<"a", "/", "b">> >>,
      << <<"$", "x", "$">>, <<"x">> >> }

ProbeInputs == BothOrders(ProbePairs)

\* one call of compare on a pair of ProbeInputs
ProbeCompare == calls = 0 /\ CompareOn(ProbeInputs)

ProbeNext ==
    \/ ProbeCompare
    \/ ParseLatex
    \/ ParseRetry
    \/ ParseAscii
    \/ ParseSympify
    \/ Difference
    \/ Structural
    \/ Symbolic
    \/ Numeric
    \/ Probe
    \/ ProbeExhausted
    \/ Fallback
    \/ Finish

\* The body of _numeric_equivalence is the code of one call running in its
\* thread: an iteration of the loop that can run does run, and so does
\* the return after the loop.
ProbeSpec ==
    Init /\ [][ProbeNext]_vars /\ WF_vars(Probe) /\ WF_vars(ProbeExhausted)

\* the sampling loop of compare has returned
ProbeReturned == CompareDone /\ stage = "probe"

\* the valid samples within the tolerance so far
ValidSamples == Trials - trials

\* C18: numeric probing returns True only at the 8th valid sample within
\* the tolerance, no valid sample above the tolerance having come before;
\* a valid sample above the tolerance returns False at once, and no
\* further sample is drawn.
C18_ProbeVerdictAtSample ==
    /\ [](/\ (ProbeReturned /\ verdict) =>
                (val = "zero" /\ ValidSamples = 8 /\ attempts >= 8)
          /\ val = "nonzero" => (ProbeReturned /\ ~verdict)
          /\ pc = "probe" => (val # "nonzero" /\ ValidSamples < 8))
    /\ [][val = "nonzero" => (pc' = "idle" /\ val' = "none")]_vars

\* the eighth valid sample, after samples that were discarded
C18_Witness ==
    /\ ProbeReturned
    /\ verdict
    /\ val = "zero"
    /\ ValidSamples = 8
    /\ attempts > 8


\* C19: numeric probing ends after at most 24 iterations of the loop; an
\* undefined sample is discarded and uses up one iteration; with fewer
\* than 8 valid samples in 24 iterations the result is False.
C19_ProbeBounded ==
    /\ [](/\ attempts <= 24
          /\ attempts >= ValidSamples
          /\ (CompareDone /\ stage = "exhausted") =>
                (~verdict /\ attempts = 24 /\ ValidSamples < 8))
    /\ [][(pc = "probe" /\ val' = "raise" /\ attempts' # attempts) =>
            (attempts' = attempts + 1 /\ trials' = trials /\ pc' = "probe")]_vars
    /\ (pc = "probe" ~> pc = "done")

\* 24 iterations, some of them with an undefined sample, some valid
C19_Witness ==
    /\ CompareDone
    /\ stage = "exhausted"
    /\ ~verdict
    /\ attempts = 24
    /\ ValidSamples > 0

\* the stages of expressions_equivalent in the order of the code
Rank(p) ==
    CASE p = "idle" -> 0
      [] p \in {"parse_latex", "parse_retry", "parse_ascii", "parse_sympify",
                "difference"} -> 1
      [] p \in {"structural", "symbolic"} -> 2
      [] p \in {"numeric", "probe"} -> 3
      [] p = "fallback" -> 4
      [] OTHER -> 5

\* C20: in a call of compare the stages run in the order parse, symbolic
\* zero test, numeric probing, string fallback: no stage is entered after
\* a later one or a second time, and numeric probing is entered only from
\* the symbolic test, when it did not establish zero.
C20_StagesInOrder ==
    /\ [][(op = "compare" /\ op' = "compare") => Rank(pc') >= Rank(pc)]_vars
    /\ [][(op = "compare" /\ pc' = "numeric" /\ pc # "numeric") =>
            (pc = "symbolic" /\ ~IsZeroSymbolically(diff, fault))]_vars
    /\ [][(op = "compare" /\ pc' = "symbolic" /\ pc # "symbolic") =>
            (pc = "difference" /\ arg = 2)]_vars
    /\ [][(op = "compare" /\ pc' = "fallback") => pc # "fallback"]_vars

\* a call that went through every stage: parsed, not symbolically zero,
\* numeric probing raised, strings compared
C20_Witness ==
    /\ CompareDone
    /\ stage = "fallback"
    /\ fault = "free_symbols"
    /\ ~ParseFailed
    /\ ~IsZeroSymbolically(diff, fault)

\* two rows of the users table with the same full name and year
DuplicateUsers ==
    \E i, j \in DOMAIN users :
        /\ i # j
        /\ users[i].full_name = users[j].full_name
        /\ users[i].year = users[j].year

ChangeBy == change.result # "none" /\ change.user # 0

\* C17: change_password replaces the stored password only when the
\* current password given is the stored one, the new password differs
\* from it and equals its confirmation; a rejected request leaves the
\* stored password as it was; after a change the new password
\* authenticates and the old one does not.
C17_PasswordChangeValidated ==
    ChangeBy =>
        LET stored == users[change.user].password_hash
        IN  /\ stored # change.before =>
                /\ change.result = "updated"
                /\ change.before = <<"pbkdf2", change.current_password>>
                /\ change.new_password # change.current_password
                /\ change.new_password = change.confirm_password
            /\ change.result # "updated" => stored = change.before
            /\ change.result = "updated" =>
                /\ stored = <<"pbkdf2", change.new_password>>
                /\ stored # change.before
                /\ stored # <<"pbkdf2", change.current_password>>

\* a password was changed
C17_Witness ==
    /\ ChangeBy
    /\ change.result = "updated"
    /\ users[change.user].password_hash = <<"pbkdf2", change.new_password>>

\* the first of the strategies to succeed on the stripped string s, in the
\* order LaTeX parser, cleanup and retry, ASCII parser, sympify; Raise
\* when none does
FirstSuccess(s) ==
    IF LATEX2SYMPY_AVAILABLE /\ Latex2Sympy(s).kind # "Raise"
    THEN Latex2Sympy(s)
    ELSE IF /\ LATEX2SYMPY_AVAILABLE
            /\ IsLatexExpression(s)
            /\ Latex2Sympy(MinimalLatexCleanup(s)).kind # "Raise"
    THEN Latex2Sympy(MinimalLatexCleanup(s))
    ELSE IF ParseExprFallback(s).kind # "Raise" THEN ParseExprFallback(s)
    ELSE Sympify(s)

\* the LaTeX parser raised on the string being parsed
LatexRaised == Latex2Sympy(CurrentInput).kind = "Raise"

\* the retry was not made or raised
RetryRaised ==
    IsLatexExpression(CurrentInput) =>
        Latex2Sympy(MinimalLatexCleanup(CurrentInput)).kind = "Raise"

\* the parser is at one of its strategies
Parsing == pc \in {"parse_latex", "parse_retry", "parse_ascii", "parse_sympify"}

\* C21: the parser tries its strategies in the order LaTeX parser, cleanup
\* and one retry (LaTeX-like input only), ASCII parser, sympify; a strategy
\* is tried only when every strategy tried before it raised; the result
\* is that of the first strategy to succeed; the parser raises exactly
\* when all of them fail.
C21_StrategiesInOrder ==
    /\ pc = "parse_latex" => LATEX2SYMPY_AVAILABLE
    /\ pc = "parse_retry" =>
        (LATEX2SYMPY_AVAILABLE /\ LatexRaised /\ IsLatexExpression(CurrentInput))
    /\ pc = "parse_ascii" =>
        (LATEX2SYMPY_AVAILABLE => (LatexRaised /\ RetryRaised))
    /\ pc = "parse_sympify" =>
        /\ LATEX2SYMPY_AVAILABLE => (LatexRaised /\ RetryRaised)
        /\ ParseExprFallback(CurrentInput).kind = "Raise"
    /\ (op = "compare" /\ Parsing /\ arg = 2) =>
        (e1 = FirstSuccess(Strip(expr1)) /\ e1.kind # "Raise")
    /\ (op = "compare" /\ pc = "difference") =>
        /\ e1 = FirstSuccess(Strip(expr1)) /\ e1.kind # "Raise"
        /\ e2 = FirstSuccess(Strip(expr2)) /\ e2.kind # "Raise"
    /\ (op = "compare" /\ pc = "fallback" /\ ParseFailed) =>
        FirstSuccess(CurrentInput).kind = "Raise"

\* the first argument was parsed by the retry after the cleanup
C21_Witness ==
    /\ op = "compare"
    /\ LATEX2SYMPY_AVAILABLE
    /\ arg = 2
    /\ Parsing
    /\ Latex2Sympy(Strip(expr1)).kind = "Raise"
    /\ e1 = Latex2Sympy(MinimalLatexCleanup(Strip(expr1)))
    /\ e1.kind # "Raise"

\* e as the left side of "... = 0": lhs - rhs of an equation, the
\* expression itself otherwise
AsZeroForm(e) == IF e.kind = "Eq" THEN RSub(e.lhs, e.rhs) ELSE e.lhs

\* both parsed inputs are equations or plain expressions
EquationsOrExpressions == e1.kind \in {"Eq", "Expr"} /\ e2.kind \in {"Eq", "Expr"}

\* C22: for two parsed inputs that are equations or plain expressions the
\* difference is e1 - e2, (lhs1 - rhs1) - (lhs2 - rhs2), (lhs - rhs) - expr
\* or expr - (lhs - rhs), in the order of the arguments, and it is
\* canonicalized before the zero test.
C22_DifferenceForm ==
    /\ (op = "compare" /\ pc = "symbolic") =>
        /\ EquationsOrExpressions
        /\ diff = CanonicalizeExpr(RSub(AsZeroForm(e1), AsZeroForm(e2)), fault)
    /\ (op = "compare" /\ pc = "structural" /\ fault # "sub") =>
        ~EquationsOrExpressions

\* an equation against a plain expression: the difference is
\* (lhs - rhs) - expr, canonicalized and not zero
C22_Witness ==
    /\ op = "compare"
    /\ pc = "symbolic"
    /\ e1.kind = "Eq"
    /\ e2.kind = "Expr"
    /\ fault = "none"
    /\ diff = CanonicalizeExpr(RSub(RSub(e1.lhs, e1.rhs), e2.lhs), "none")
    /\ diff # RZero

\* get_canonical_form is about to return _basic_string_normalization of
\* its argument
NormalizeFellBack == NormalizeDone /\ stage = "fallback"

\* ch2 immediately follows ch1 somewhere in s
Adjacent(s, first, second) ==
    \E i \in 1..(Len(s) - 1) : s[i] \in first /\ s[i + 1] \in second

\* C23: the fallback normalization leaves no closing parenthesis
\* immediately followed by the next token: ")(" and ")x" come out as
\* ")*(" and ")*x".
C23_ClosingParenTimes ==
    NormalizeFellBack =>
        ~Adjacent(canonical, {")"}, Letters \cup Digits \cup {"("})

\* C24: in the output of the fallback normalization no digit is
\* immediately followed by a letter, also when the letter begins a
\* function name.
C24_NoDigitLetter ==
    NormalizeFellBack => ~Adjacent(canonical, Digits, Letters)

\* C25: the fallback normalization inserts no "*" between a function name
\* of the symbol table and its argument parenthesis.
C25_FunctionsProtected ==
    NormalizeFellBack =>
        \A fn \in local_dict :
            Contains(canonical, Lower(fn) \o <<"*", "(">>) =>
                Contains(Lower(expr1), Lower(fn) \o <<"*", "(">>)

\* the number of "=" characters of s
EqualsSigns(s) == Cardinality({i \in 1..Len(s) : s[i] = "="})

\* C26: the ASCII parser splits its input at "=" exactly when the stripped
\* input holds one "=" character; an input with two or more is not split.
C26_SplitIffSingleEquals ==
    pc = "parse_ascii" =>
        (SplitAtEquals(CurrentInput) <=> EqualsSigns(CurrentInput) = 1)

\* C27: compare accepts two plain expressions only if their difference is
\* zero at every point of the sampling domain where it is defined,
\* whatever points the sampling draws.
C27_AcceptsOnlyZeroOnDomain ==
    ( /\ CompareDone
      /\ fault = "none"
      /\ e1.kind = "Expr"
      /\ e2.kind = "Expr"
      /\ verdict = TRUE ) =>
        \A pt \in SamplePoints(RSub(e1.lhs, e2.lhs)) :
            SampleOutcome(RSub(e1.lhs, e2.lhs), pt, "none") # "nonzero"

WritesForRegularUser(w) ==
    /\ ~IsAdmin(posts[w].user)
    /\ \/ posts[w].at = "create" /\ answer_submission' # answer_submission
       \/ posts[w].at = "result" /\ leaderboard_entry' # leaderboard_entry

====
